---- MODULE Spec2Model ----
(***************************************************************************)
(* Bear: the intercept collector (Reporter, Execution::Builder,            *)
(* Application) and the supervisor, modelled from the sources.             *)
(***************************************************************************)
EXTENDS Integers, Sequences, FiniteSets, TLC

\* ------------------------------------------------------------------ bounds
\* number of Execution::Builder::add calls explored on one builder
MaxAdds == 4
\* number of signals that reach the collector in one run
MaxSignals == 2
\* number of concurrent Reporter::report calls
NumCalls == 2
\* number of supervisors in one intercepted build (the first is the
\* top-level child of the collector)
NumSups == 2

\* ------------------------------------------------------- <signal.h>, <stdlib.h>
SIGHUP == 1
SIGINT == 2
SIGQUIT == 3
SIGTRAP == 5
SIGABRT == 6
SIGBUS == 7
SIGFPE == 8
SIGKILL == 9
SIGUSR1 == 10
SIGSEGV == 11
SIGUSR2 == 12
SIGPIPE == 13
SIGALRM == 14
SIGTERM == 15
SIGCONT == 18
SIGSTOP == 19
SIGTSTP == 20
SIGTTIN == 21
SIGTTOU == 22
SIGURG == 23
SIGXCPU == 24
SIGXFSZ == 25
SIGVTALRM == 26
SIGPROF == 27
SIGPOLL == 29
SIGSYS == 31
EXIT_FAILURE == 1

\* ------------------------------------------------------------ basic values
\* std::nullopt of an optional<int>
Null == -1
\* a null Execution::UniquePtr; a non-null one is <<execution>>
NoExecution == << >>
\* no event
NoEvent == << >>

\* pid/ppid values carried by a started event (0 is "not set" in protobuf)
Pids == {0, 7}
\* executables named by started events
Programs == {"cc", "ld"}
\* exit statuses carried by stopped events
Statuses == {0, 1}
\* signal numbers carried by signalled events
SignalNumbers == {15}

\* supervise::Event is a protobuf oneof: at most one of started, stopped,
\* signalled is set ("none": the oneof is not set).
StartedEvents ==
    [type : {"started"}, executable : Programs, pid : Pids, ppid : Pids,
     status : {0}, number : {0}]

StoppedEvents ==
    [type : {"stopped"}, executable : {""}, pid : {0}, ppid : {0},
     status : Statuses, number : {0}]

SignalledEvents ==
    [type : {"signalled"}, executable : {""}, pid : {0}, ppid : {0},
     status : {0}, number : SignalNumbers]

UnsetEvents ==
    [type : {"none"}, executable : {""}, pid : {0}, ppid : {0},
     status : {0}, number : {0}]

Events == StartedEvents \cup StoppedEvents \cup SignalledEvents \cup UnsetEvents

has_started(event) == event.type = "started"
has_stopped(event) == event.type = "stopped"
has_signalled(event) == event.type = "signalled"

\* ---------------------------------------------------- Reporter.cc helpers
\* to_optional: 0 becomes nullopt
to_optional(value) == IF value = 0 THEN Null ELSE value

\* update_run_with_started: appends a "start" event to the run
update_run_with_started(run, source) ==
    [run EXCEPT !.events =
        Append(@, [type |-> "start", status |-> Null, signal |-> Null])]

\* update_run_with_signaled: appends a "signal" event to the run
update_run_with_signaled(run, source) ==
    [run EXCEPT !.events =
        Append(@, [type |-> "signal", status |-> Null, signal |-> source.number])]

\* update_run_with_stopped: appends a "stop" event to the run
update_run_with_stopped(run, source) ==
    [run EXCEPT !.events =
        Append(@, [type |-> "stop", status |-> source.status, signal |-> Null])]

\* init_execution: command and run identity from the started event
init_execution(source) ==
    [command |-> source.executable,
     run |-> update_run_with_started(
                [pid |-> to_optional(source.pid),
                 ppid |-> to_optional(source.ppid),
                 events |-> << >>], source)]

\* a plausible slip: a started event re-initialises an open builder
BuilderAdd_Reinit(execution, event) ==
    IF has_started(event) THEN <<init_execution(event)>>
    ELSE IF execution # NoExecution /\ has_stopped(event)
         THEN <<[execution[1] EXCEPT !.run = update_run_with_stopped(@, event)]>>
    ELSE IF execution # NoExecution /\ has_signalled(event)
         THEN <<[execution[1] EXCEPT !.run = update_run_with_signaled(@, event)]>>
    ELSE execution

\* Execution::Builder::add: the value of execution_ after add(event)
BuilderAdd(execution, event) ==
    IF execution = NoExecution /\ has_started(event) THEN <<init_execution(event)>>
    ELSE IF execution # NoExecution /\ has_stopped(event)
         THEN <<[execution[1] EXCEPT !.run = update_run_with_stopped(@, event)]>>
    ELSE IF execution # NoExecution /\ has_signalled(event)
         THEN <<[execution[1] EXCEPT !.run = update_run_with_signaled(@, event)]>>
    ELSE execution

\* ------------------------------------------------- Reporter.cc, the report
\* The event the supervisor's start() builds, and the one stop() builds.
StartedEvent(executable, pid, ppid) ==
    [type |-> "started", executable |-> executable, pid |-> pid, ppid |-> ppid,
     status |-> 0, number |-> 0]

StoppedEvent(status) ==
    [type |-> "stopped", executable |-> "", pid |-> 0, ppid |-> 0,
     status |-> status, number |-> 0]

\* a builder fed the events of a list, in order
RECURSIVE AddAll(_, _)
AddAll(execution, events) ==
    IF events = << >> THEN execution
    ELSE AddAll(BuilderAdd(execution, Head(events)), Tail(events))

\* to_json(Content): the document is an object whose members are the
\* context and the list of executions, in the order of content.executions.
\* It is modelled as the sequence of its parts, which reach the file in
\* this order.
Token(kind, execution) == [kind |-> kind, execution |-> execution]

RECURSIVE ExecutionTokens(_)
ExecutionTokens(list) ==
    IF list = << >> THEN << >>
    ELSE <<Token("execution", <<Head(list)>>)>> \o ExecutionTokens(Tail(list))

Serialize(list) ==
    <<Token("open", NoExecution), Token("context", NoExecution)>>
        \o ExecutionTokens(list) \o <<Token("close", NoExecution)>>

\* the file system object named by impl_->output
NoFile == [exists |-> FALSE, data |-> << >>]

\* std::ofstream(target): the file is created or truncated to length zero
Truncate(f) == [exists |-> TRUE, data |-> << >>]

\* a write of one part at the stream's own offset
WriteAt(f, pos, token) ==
    [exists |-> TRUE,
     data |-> IF pos < Len(f.data)
              THEN [f.data EXCEPT ![pos + 1] = token]
              ELSE f.data
                   \o [k \in 1..(pos - Len(f.data)) |-> Token("hole", NoExecution)]
                   \o <<token>>]

\* the state of a closed or never opened stream
NoStream == [good |-> TRUE, pos |-> 0, doc |-> << >>]

NoSnap == [doc |-> << >>, file |-> NoFile, good |-> TRUE]

\* --------------------------------------------------------------- variables
VARIABLES
    execution_,     \* Execution::Builder::execution_ (NoExecution: nullptr)
    lastEvent,      \* <<event>> handed to the most recent add
    nAdds,          \* number of add calls made on the builder
    built,          \* result of the most recent build
    pc,             \* where each Reporter::report call is
    arg,            \* the execution each call reports
    mutex,          \* Reporter::State::mutex: 0 is free, else the holder
    executions,     \* Reporter::State::content.executions
    file,           \* the report file
    stream,         \* persist's local json document and ofstream, per call
    lockOrder,      \* the calls in the order they took the mutex
    snap,           \* what a call wrote and what the file held at its return
    ret,            \* the response of the call seen by the RPC peer
    observed,       \* what a reader of the report file saw last
    cpc,            \* where ic::Application::operator() is
    server,         \* the gRPC server: "none", "listening", "shutdown"
    address,        \* the session's server address ("" until set)
    requested,      \* the signals signal(signum, &handler) was called for
    CHILD_PROCESS,  \* the pointer of that name: 0 is nullptr, else the child
    reaped,         \* child.wait() has collected the top-level child
    result,         \* the rust::Result<int> of execute_command
    flushed,        \* reporter_->flush() has run
    spawnCtx,       \* server state and session address when the child was spawned
    sent,           \* the kill() calls of handler, in order
    logged,         \* the signals handler only logged
    nSignals,       \* signals that reached the collector so far
    lastSig,        \* the last of them
    cstate,         \* the collector process: "running", "killed", "crashed"
    spc,            \* where each supervisor (er::Application::operator()) is
    events,         \* the supervisor's local list of events
    sexit,          \* how the supervisor process ended
    diedAt,         \* where the supervisor was when it was killed while the
                    \* collector was serving ("orphan": killed afterwards)
    ssig,           \* the signals each supervisor received, and those it
                    \* passed on to its child with kill
    fcall,          \* a call of a function of the preload library or of the
                    \* other tools, with its arguments
    fret            \* what that call did and returned

builderVars == <<execution_, lastEvent, nAdds, built>>

reporterVars ==
    <<pc, arg, mutex, executions, file, stream, lockOrder, snap, ret, observed>>

collectorVars ==
    <<cpc, server, address, requested, CHILD_PROCESS, reaped, result, flushed,
      spawnCtx, sent, logged, nSignals, lastSig, cstate>>

supervisorVars == <<spc, events, sexit, diedAt, ssig>>

pureVars == <<fcall, fret>>

vars == <<builderVars, reporterVars, collectorVars, supervisorVars, pureVars>>

\* the worker threads of the server: one per Reporter::report call
Calls == 1..(IF NumCalls > NumSups THEN NumCalls ELSE NumSups)

\* the most parts a report document of the runs explored has
MaxParts == 3 + (IF NumCalls > NumSups THEN NumCalls ELSE NumSups)

\* the supervisor processes; TopLevel is the one the collector spawns
Sups == 1..NumSups
TopLevel == 1

\* the collector process is running
CollectorAlive == cstate = "running" /\ cpc # "done"

\* Execution::Builder::Builder
BuilderInit ==
    /\ execution_ = NoExecution
    /\ lastEvent = NoEvent
    /\ nAdds = 0
    /\ built = NoExecution

\* Reporter::from: empty content, no file written yet
ReporterInit ==
    /\ pc = [c \in Calls |-> "idle"]
    /\ arg = [c \in Calls |-> NoExecution]
    /\ mutex = 0
    /\ executions = << >>
    /\ file = NoFile
    /\ stream = [c \in Calls |-> NoStream]
    /\ lockOrder = << >>
    /\ snap = [c \in Calls |-> NoSnap]
    /\ ret = [c \in Calls |-> "pending"]
    /\ observed = NoFile

\* Execution::Builder::add
Add(event) ==
    /\ nAdds < MaxAdds
    /\ execution_' = BuilderAdd(execution_, event)
    /\ lastEvent' = <<event>>
    /\ nAdds' = nAdds + 1
    /\ UNCHANGED built
    /\ UNCHANGED <<reporterVars, collectorVars, supervisorVars>>
    /\ UNCHANGED pureVars

\* Execution::Builder::build: std::move(execution_) leaves nullptr behind
Build ==
    /\ built' = execution_
    /\ execution_' = NoExecution
    /\ lastEvent' = NoEvent
    /\ UNCHANGED nAdds
    /\ UNCHANGED <<reporterVars, collectorVars, supervisorVars>>
    /\ UNCHANGED pureVars

\* ---------------------------------------------------- Reporter::report
\* a worker thread enters Reporter::report with a built execution
ReportCall(c, program, status) ==
    /\ pc[c] = "idle"
    /\ arg' = [arg EXCEPT ![c] =
                  AddAll(NoExecution,
                         <<StartedEvent(program, c, 0), StoppedEvent(status)>>)]
    /\ pc' = [pc EXCEPT ![c] = "lock"]
    /\ UNCHANGED <<mutex, executions, file, stream, lockOrder, snap, ret, observed>>
    /\ UNCHANGED <<builderVars, collectorVars, supervisorVars>>
    /\ UNCHANGED pureVars

\* a mutant: the lock is not exclusive
CanLock_NoMutex(c) == TRUE

\* std::lock_guard: the mutex can be taken when nobody holds it
CanLock(c) == mutex = 0

\* const std::lock_guard<std::mutex> lock(impl_->mutex)
Lock(c) ==
    /\ pc[c] = "lock"
    /\ CanLock(c)
    /\ mutex' = c
    /\ lockOrder' = Append(lockOrder, c)
    /\ pc' = [pc EXCEPT ![c] = "push"]
    /\ UNCHANGED <<arg, executions, file, stream, snap, ret, observed>>
    /\ UNCHANGED <<builderVars, collectorVars, supervisorVars>>
    /\ UNCHANGED pureVars

\* impl_->content.executions.push_back(*ptr)
PushBack(c) ==
    /\ pc[c] = "push"
    /\ executions' = Append(executions, arg[c][1])
    /\ pc' = [pc EXCEPT ![c] = "open"]
    /\ UNCHANGED <<arg, mutex, file, stream, lockOrder, snap, ret, observed>>
    /\ UNCHANGED <<builderVars, collectorVars, supervisorVars>>
    /\ UNCHANGED pureVars

\* persist: json j = content; std::ofstream target_file(target). Opening
\* truncates the file; when it fails the stream is bad and the file is as
\* it was.
PersistOpen(c, ok) ==
    /\ pc[c] = "open"
    /\ stream' = [stream EXCEPT ![c] =
                     [good |-> ok, pos |-> 0, doc |-> Serialize(executions)]]
    /\ file' = IF ok THEN Truncate(file) ELSE file
    /\ pc' = [pc EXCEPT ![c] = "write"]
    /\ UNCHANGED <<arg, mutex, executions, lockOrder, snap, ret, observed>>
    /\ UNCHANGED <<builderVars, collectorVars, supervisorVars>>
    /\ UNCHANGED pureVars

\* persist: target_file << std::setw(4) << j << std::endl. The document
\* reaches the file part by part; a failed write sets the stream bad, and a
\* bad stream writes nothing more.
PersistWrite(c, ok) ==
    /\ pc[c] = "write"
    /\ stream[c].good
    /\ stream[c].pos < Len(stream[c].doc)
    /\ IF ok
       THEN /\ file' = WriteAt(file, stream[c].pos, stream[c].doc[stream[c].pos + 1])
            /\ stream' = [stream EXCEPT ![c].pos = @ + 1]
       ELSE /\ file' = file
            /\ stream' = [stream EXCEPT ![c].good = FALSE]
    /\ UNCHANGED <<pc, arg, mutex, executions, lockOrder, snap, ret, observed>>
    /\ UNCHANGED <<builderVars, collectorVars, supervisorVars>>
    /\ UNCHANGED pureVars

\* persist returns (nothing is checked, nothing is thrown), the stream is
\* closed, report returns void and the lock_guard releases the mutex.
Return(c) ==
    /\ pc[c] = "write"
    /\ ~stream[c].good \/ stream[c].pos = Len(stream[c].doc)
    /\ snap' = [snap EXCEPT ![c] =
                   [doc |-> stream[c].doc, file |-> file, good |-> stream[c].good]]
    /\ stream' = [stream EXCEPT ![c] = NoStream]
    /\ mutex' = IF mutex = c THEN 0 ELSE mutex
    /\ ret' = [ret EXCEPT ![c] = "ok"]
    /\ pc' = [pc EXCEPT ![c] = "done"]
    /\ UNCHANGED <<arg, executions, file, lockOrder, observed>>
    /\ UNCHANGED <<builderVars, collectorVars, supervisorVars>>
    /\ UNCHANGED pureVars

\* another process opens and reads the report file
Read ==
    /\ observed' = file
    /\ UNCHANGED <<pc, arg, mutex, executions, file, stream, lockOrder, snap, ret>>
    /\ UNCHANGED <<builderVars, collectorVars, supervisorVars>>
    /\ UNCHANGED pureVars

\* ------------------------------------ intercept/source/Application.cc
SIGNALS_TO_FORWARD ==
    {SIGABRT, SIGALRM, SIGBUS, SIGCONT, SIGFPE, SIGHUP, SIGINT, SIGPIPE,
     SIGPOLL, SIGPROF, SIGQUIT, SIGSEGV, SIGSTOP, SIGSYS, SIGTERM, SIGTRAP,
     SIGTSTP, SIGTTIN, SIGTTOU, SIGUSR1, SIGUSR2, SIGURG, SIGVTALRM, SIGXCPU,
     SIGXFSZ}

\* signal(signum, &handler) installs the handler, except for the two
\* signals whose disposition cannot be changed, for which it fails
Catchable(signum) == signum \notin {SIGKILL, SIGSTOP}

\* the signals handler is installed for
Handled == {signum \in requested : Catchable(signum)}

\* the signals that reach the collector in the runs explored
SignalInputs == {SIGINT, SIGSTOP, SIGKILL}

\* the exit codes of the programs run by the build
ExitCodes == {0, 3}

\* the address published to the session: "0.0.0.0:<port>"
ServerAddress == "0.0.0.0:port"

\* a mutant: the server is stopped before the command is executed
Successor_ShutdownFirst(p) ==
    CASE p = "start" -> "address"
      [] p = "address" -> "shutdown"
      [] p = "shutdown" -> "handlers"
      [] p = "handlers" -> "supervise"
      [] p = "supervise" -> "spawn"
      [] p = "spawn" -> "record"
      [] p = "record" -> "wait"
      [] p = "wait" -> "clear"
      [] p = "clear" -> "flush"
      [] p = "flush" -> "return"
      [] p = "return" -> "done"

\* the order of the statements of Application::operator() and of
\* execute_command, which it calls between set_server_address and Shutdown
Successor(p) ==
    CASE p = "start" -> "address"
      [] p = "address" -> "handlers"
      [] p = "handlers" -> "supervise"
      [] p = "supervise" -> "spawn"
      [] p = "spawn" -> "record"
      [] p = "record" -> "wait"
      [] p = "wait" -> "clear"
      [] p = "clear" -> "shutdown"
      [] p = "shutdown" -> "flush"
      [] p = "flush" -> "return"
      [] p = "return" -> "done"

\* how a process ended: running, exited with a code, or killed by a signal
Running == [state |-> "running", code |-> 0]
Exited(code) == [state |-> "exited", code |-> code]
Signaled(signum) == [state |-> "signaled", code |-> signum]

\* sys::ExitStatus::code(): the exit code, when the process exited
ExitStatusCode(status) ==
    IF status.state = "exited" THEN status.code ELSE Null

\* execute_command: status.code().value_or(EXIT_FAILURE)
ExitCodeOf(status) ==
    IF ExitStatusCode(status) # Null THEN ExitStatusCode(status) ELSE EXIT_FAILURE

\* rust::Result<int>
Ok(value) == [ok |-> TRUE, value |-> value]
Err == [ok |-> FALSE, value |-> Null]

\* the exit code main makes of the result of Application::operator()
MainExitCode(r) == IF r.ok THEN r.value ELSE EXIT_FAILURE

NoSpawn == [spawned |-> FALSE, listening |-> FALSE, address |-> ""]

CollectorInit ==
    /\ cpc = "start"
    /\ server = "none"
    /\ address = ""
    /\ requested = {}
    /\ CHILD_PROCESS = 0
    /\ reaped = FALSE
    /\ result = Err
    /\ flushed = FALSE
    /\ spawnCtx = NoSpawn
    /\ sent = << >>
    /\ logged = 0
    /\ nSignals = 0
    /\ lastSig = 0
    /\ cstate = "running"

SupervisorInit ==
    /\ spc = [s \in Sups |-> "none"]
    /\ events = [s \in Sups |-> << >>]
    /\ sexit = [s \in Sups |-> Running]
    /\ diedAt = [s \in Sups |-> "none"]
    /\ ssig = [s \in Sups |-> [received |-> << >>, forwarded |-> << >>]]

\* grpc::ServerBuilder()...BuildAndStart()
BuildAndStart ==
    /\ cpc = "start"
    /\ cstate = "running"
    /\ server' = "listening"
    /\ cpc' = Successor("start")
    /\ UNCHANGED <<address, requested, CHILD_PROCESS, reaped, result, flushed,
                   spawnCtx, sent, logged, nSignals, lastSig, cstate>>
    /\ UNCHANGED <<builderVars, reporterVars, supervisorVars>>
    /\ UNCHANGED pureVars

\* impl_->session_->set_server_address(server_address)
SetServerAddress ==
    /\ cpc = "address"
    /\ cstate = "running"
    /\ address' = ServerAddress
    /\ cpc' = Successor("address")
    /\ UNCHANGED <<server, requested, CHILD_PROCESS, reaped, result, flushed,
                   spawnCtx, sent, logged, nSignals, lastSig, cstate>>
    /\ UNCHANGED <<builderVars, reporterVars, supervisorVars>>
    /\ UNCHANGED pureVars

\* execute_command: for (auto signum : SIGNALS_TO_FORWARD) signal(signum, &handler)
InstallHandlers ==
    /\ cpc = "handlers"
    /\ cstate = "running"
    /\ requested' = SIGNALS_TO_FORWARD
    /\ cpc' = Successor("handlers")
    /\ UNCHANGED <<server, address, CHILD_PROCESS, reaped, result, flushed,
                   spawnCtx, sent, logged, nSignals, lastSig, cstate>>
    /\ UNCHANGED <<builderVars, reporterVars, supervisorVars>>
    /\ UNCHANGED pureVars

\* execute_command: session.supervise(command); on failure the and_then
\* steps are skipped and execute_command returns the error
Supervise(ok) ==
    /\ cpc = "supervise"
    /\ cstate = "running"
    /\ cpc' = IF ok THEN Successor("supervise") ELSE Successor("clear")
    /\ result' = Err
    /\ UNCHANGED <<server, address, requested, CHILD_PROCESS, reaped, flushed,
                   spawnCtx, sent, logged, nSignals, lastSig, cstate>>
    /\ UNCHANGED <<builderVars, reporterVars, supervisorVars>>
    /\ UNCHANGED pureVars

\* execute_command: builder.spawn(false) starts the supervisor of the command
Spawn(ok) ==
    /\ cpc = "spawn"
    /\ cstate = "running"
    /\ IF ok
       THEN /\ spc' = [spc EXCEPT ![TopLevel] = "env"]
            /\ spawnCtx' = [spawned |-> TRUE,
                            listening |-> server = "listening",
                            address |-> address]
            /\ cpc' = Successor("spawn")
       ELSE /\ UNCHANGED <<spc, spawnCtx>>
            /\ cpc' = Successor("clear")
    /\ result' = Err
    /\ UNCHANGED <<server, address, requested, CHILD_PROCESS, reaped, flushed,
                   sent, logged, nSignals, lastSig, cstate>>
    /\ UNCHANGED <<events, sexit, diedAt, ssig>>
    /\ UNCHANGED <<builderVars, reporterVars>>
    /\ UNCHANGED pureVars

\* execute_command: CHILD_PROCESS = &child
RecordChild ==
    /\ cpc = "record"
    /\ cstate = "running"
    /\ CHILD_PROCESS' = TopLevel
    /\ cpc' = Successor("record")
    /\ UNCHANGED <<server, address, requested, reaped, result, flushed,
                   spawnCtx, sent, logged, nSignals, lastSig, cstate>>
    /\ UNCHANGED <<builderVars, reporterVars, supervisorVars>>
    /\ UNCHANGED pureVars

\* execute_command: auto result = child.wait(), mapped by
\* status.code().value_or(EXIT_FAILURE) when the wait succeeded
Wait(ok) ==
    /\ cpc = "wait"
    /\ cstate = "running"
    /\ IF ok
       THEN /\ sexit[TopLevel].state # "running"
            /\ reaped' = TRUE
            /\ result' = Ok(ExitCodeOf(sexit[TopLevel]))
       ELSE /\ reaped' = reaped
            /\ result' = Err
    /\ cpc' = Successor("wait")
    /\ UNCHANGED <<server, address, requested, CHILD_PROCESS, flushed,
                   spawnCtx, sent, logged, nSignals, lastSig, cstate>>
    /\ UNCHANGED <<builderVars, reporterVars, supervisorVars>>
    /\ UNCHANGED pureVars

\* execute_command: CHILD_PROCESS = nullptr
ClearChild ==
    /\ cpc = "clear"
    /\ cstate = "running"
    /\ CHILD_PROCESS' = 0
    /\ cpc' = Successor("clear")
    /\ UNCHANGED <<server, address, requested, reaped, result, flushed,
                   spawnCtx, sent, logged, nSignals, lastSig, cstate>>
    /\ UNCHANGED <<builderVars, reporterVars, supervisorVars>>
    /\ UNCHANGED pureVars

\* server->Shutdown(): returns when the calls in progress have finished
Shutdown ==
    /\ cpc = "shutdown"
    /\ cstate = "running"
    /\ \A c \in Calls : pc[c] \in {"idle", "done"}
    /\ server' = "shutdown"
    /\ cpc' = Successor("shutdown")
    /\ UNCHANGED <<address, requested, CHILD_PROCESS, reaped, result, flushed,
                   spawnCtx, sent, logged, nSignals, lastSig, cstate>>
    /\ UNCHANGED <<builderVars, reporterVars, supervisorVars>>
    /\ UNCHANGED pureVars

\* impl_->reporter_->flush(): writes the in-memory report to the output
Flush ==
    /\ cpc = "flush"
    /\ cstate = "running"
    /\ flushed' = TRUE
    /\ file' = [exists |-> TRUE, data |-> Serialize(executions)]
    /\ cpc' = Successor("flush")
    /\ UNCHANGED <<server, address, requested, CHILD_PROCESS, reaped, result,
                   spawnCtx, sent, logged, nSignals, lastSig, cstate>>
    /\ UNCHANGED <<pc, arg, mutex, executions, stream, lockOrder, snap, ret, observed>>
    /\ UNCHANGED <<builderVars, supervisorVars>>
    /\ UNCHANGED pureVars

\* return result
ReturnResult ==
    /\ cpc = "return"
    /\ cstate = "running"
    /\ cpc' = Successor("return")
    /\ UNCHANGED <<server, address, requested, CHILD_PROCESS, reaped, result,
                   flushed, spawnCtx, sent, logged, nSignals, lastSig, cstate>>
    /\ UNCHANGED <<builderVars, reporterVars, supervisorVars>>
    /\ UNCHANGED pureVars

\* a mutant: the handler sends SIGTERM whatever it received
ForwardedSignal_Term(signum) == SIGTERM

\* handler: the signal number passed to CHILD_PROCESS->kill
ForwardedSignal(signum) == signum

\* the state of the top-level child as a process: "none" before the spawn,
\* "running", "zombie" once it ended, "reaped" once waited for
ChildState ==
    IF spc[TopLevel] = "none" THEN "none"
    ELSE IF reaped THEN "reaped"
    ELSE IF sexit[TopLevel].state = "running" THEN "running"
    ELSE "zombie"

\* handler(signum): a signal with an installed handler reaches the collector
Handler(signum) ==
    /\ CollectorAlive
    /\ nSignals < MaxSignals
    /\ signum \in Handled
    /\ nSignals' = nSignals + 1
    /\ lastSig' = signum
    /\ IF CHILD_PROCESS # 0
       THEN /\ sent' = Append(sent, [signum |-> ForwardedSignal(signum),
                                     to |-> CHILD_PROCESS,
                                     state |-> ChildState])
            /\ logged' = logged
       ELSE /\ sent' = sent
            /\ logged' = logged + 1
    /\ UNCHANGED <<cpc, server, address, requested, CHILD_PROCESS, reaped,
                   result, flushed, spawnCtx, cstate>>
    /\ UNCHANGED <<builderVars, reporterVars, supervisorVars>>
    /\ UNCHANGED pureVars

\* a signal without an installed handler reaches the collector: SIGSTOP
\* suspends it, any other signal explored here ends it
DefaultDisposition(signum) ==
    /\ CollectorAlive
    /\ nSignals < MaxSignals
    /\ signum \notin Handled
    /\ nSignals' = nSignals + 1
    /\ lastSig' = signum
    /\ cstate' = IF signum = SIGSTOP THEN cstate ELSE "killed"
    /\ UNCHANGED <<cpc, server, address, requested, CHILD_PROCESS, reaped,
                   result, flushed, spawnCtx, sent, logged>>
    /\ UNCHANGED <<builderVars, reporterVars, supervisorVars>>
    /\ UNCHANGED pureVars

\* ------------------- intercept-library/executable/source/Application.cc
\* impl_->execution_.path: the top-level supervisor runs the build command,
\* the others the programs the build executes
Executable(s) == IF s = TopLevel THEN "cc" ELSE "ld"

\* a process of the build execs a program: the preload library runs the
\* supervisor in its place
SupStart(s) ==
    /\ s # TopLevel
    /\ spc[s] = "none"
    /\ \E t \in Sups : spc[t] = "wait"
    /\ spc' = [spc EXCEPT ![s] = "env"]
    /\ UNCHANGED <<events, sexit, diedAt, ssig>>
    /\ UNCHANGED <<builderVars, reporterVars, collectorVars>>
    /\ UNCHANGED pureVars

\* the supervisor returns an error: its process exits with EXIT_FAILURE
SupFailed(s) ==
    /\ spc' = [spc EXCEPT ![s] = "exited"]
    /\ sexit' = [sexit EXCEPT ![s] = Exited(EXIT_FAILURE)]

\* client.get_environment_update(...): needs the server of the collector
GetEnvironmentUpdate(s, ok) ==
    /\ spc[s] = "env"
    /\ ok => (server = "listening" /\ CollectorAlive)
    /\ IF ok
       THEN spc' = [spc EXCEPT ![s] = "spawn"] /\ sexit' = sexit
       ELSE SupFailed(s)
    /\ UNCHANGED <<events, diedAt, ssig>>
    /\ UNCHANGED <<builderVars, reporterVars, collectorVars>>
    /\ UNCHANGED pureVars

\* impl_->context_.spawn(path, command, environment)
SupSpawn(s, ok) ==
    /\ spc[s] = "spawn"
    /\ IF ok
       THEN spc' = [spc EXCEPT ![s] = "cwd"] /\ sexit' = sexit
       ELSE SupFailed(s)
    /\ UNCHANGED <<events, diedAt, ssig>>
    /\ UNCHANGED <<builderVars, reporterVars, collectorVars>>
    /\ UNCHANGED pureVars

\* get_cwd().map(start).map(push_back): the started event is appended only
\* when the working directory could be queried
GetCwd(s, ok) ==
    /\ spc[s] = "cwd"
    /\ events' = [events EXCEPT ![s] =
                    IF ok THEN Append(@, StartedEvent(Executable(s), s, 0)) ELSE @]
    /\ spc' = [spc EXCEPT ![s] = "wait"]
    /\ UNCHANGED <<sexit, diedAt, ssig>>
    /\ UNCHANGED <<builderVars, reporterVars, collectorVars>>
    /\ UNCHANGED pureVars

\* impl_->context_.wait_pid(pid)
WaitPid(s, ok, exit) ==
    /\ spc[s] = "wait"
    /\ IF ok
       THEN /\ spc' = [spc EXCEPT ![s] = "stop"]
            /\ sexit' = [sexit EXCEPT ![s] = [state |-> "running", code |-> exit]]
       ELSE SupFailed(s)
    /\ UNCHANGED <<events, diedAt, ssig>>
    /\ UNCHANGED <<builderVars, reporterVars, collectorVars>>
    /\ UNCHANGED pureVars

\* events.push_back(*stop(exit)); client.report(events): the events are
\* streamed to the collector, whose Report handler adds them to a builder
\* and passes builder.build() to Reporter::report. Without a server the
\* call fails and the supervisor goes on to return.
StopAndReport(s) ==
    /\ spc[s] = "stop"
    /\ events' = [events EXCEPT ![s] = Append(@, StoppedEvent(sexit[s].code))]
    /\ IF server = "listening" /\ CollectorAlive
       THEN /\ arg' = [arg EXCEPT ![s] = AddAll(NoExecution, events'[s])]
            /\ pc' = [pc EXCEPT ![s] = "received"]
            /\ spc' = [spc EXCEPT ![s] = "report"]
            /\ sexit' = sexit
       ELSE /\ UNCHANGED <<arg, pc>>
            /\ spc' = [spc EXCEPT ![s] = "exited"]
            /\ sexit' = [sexit EXCEPT ![s] = Exited(sexit[s].code)]
    /\ UNCHANGED <<diedAt, ssig>>
    /\ UNCHANGED <<mutex, executions, file, stream, lockOrder, snap, ret, observed>>
    /\ UNCHANGED <<builderVars, collectorVars>>
    /\ UNCHANGED pureVars

\* client.report returns (the call was answered, or the collector is gone);
\* return exit
SupReturn(s) ==
    /\ spc[s] = "report"
    /\ pc[s] = "done" \/ ~CollectorAlive
    /\ spc' = [spc EXCEPT ![s] = "exited"]
    /\ sexit' = [sexit EXCEPT ![s] = Exited(sexit[s].code)]
    /\ UNCHANGED <<events, diedAt, ssig>>
    /\ UNCHANGED <<builderVars, reporterVars, collectorVars>>
    /\ UNCHANGED pureVars

\* the supervisor process is killed
Die(s) ==
    /\ spc[s] \in {"env", "spawn", "cwd", "wait", "stop", "report"}
    /\ diedAt' = [diedAt EXCEPT ![s] =
                    IF server = "listening" /\ CollectorAlive
                    THEN spc[s] ELSE "orphan"]
    /\ spc' = [spc EXCEPT ![s] = "died"]
    /\ sexit' = [sexit EXCEPT ![s] = Signaled(SIGKILL)]
    /\ UNCHANGED <<events, ssig>>
    /\ UNCHANGED <<builderVars, reporterVars, collectorVars>>
    /\ UNCHANGED pureVars

\* the signals sent to a supervisor in the runs explored
SupSignalInputs == {SIGTERM}

\* a signal reaches the supervisor: er::Application installs no handler and
\* never calls kill, so the signal has its default action on the supervisor
\* (the signals explored terminate it); nothing is passed on to the child
\* and no event is made of it
SupSignal(s, signum) ==
    /\ spc[s] \in {"env", "spawn", "cwd", "wait", "stop", "report"}
    /\ ssig' = [ssig EXCEPT ![s].received = Append(@, signum)]
    /\ diedAt' = [diedAt EXCEPT ![s] =
                    IF server = "listening" /\ CollectorAlive
                    THEN spc[s] ELSE "orphan"]
    /\ spc' = [spc EXCEPT ![s] = "died"]
    /\ sexit' = [sexit EXCEPT ![s] = Signaled(signum)]
    /\ UNCHANGED events
    /\ UNCHANGED <<builderVars, reporterVars, collectorVars>>
    /\ UNCHANGED pureVars

\* the file after persist wrote the first k parts of doc (k < 0: the file
\* could not be opened)
RECURSIVE Persisted(_, _, _)
Persisted(f, doc, k) ==
    IF k < 0 THEN f
    ELSE IF k = 0 THEN Truncate(f)
    ELSE WriteAt(Persisted(f, doc, k - 1), k - 1, doc[k])

\* Reporter::report(builder.build()) in the Report handler of a worker
\* thread: under the mutex the execution is appended and the report is
\* persisted; the write may stop at any part of the document
HandleReport(c, k) ==
    /\ pc[c] = "received"
    /\ CollectorAlive
    /\ arg[c] # NoExecution
    /\ CanLock(c)
    /\ k <= Len(Serialize(Append(executions, arg[c][1])))
    /\ executions' = Append(executions, arg[c][1])
    /\ lockOrder' = Append(lockOrder, c)
    /\ file' = Persisted(file, Serialize(executions'), k)
    /\ ret' = [ret EXCEPT ![c] = "ok"]
    /\ pc' = [pc EXCEPT ![c] = "done"]
    /\ UNCHANGED <<arg, mutex, stream, snap, observed>>
    /\ UNCHANGED <<builderVars, collectorVars, supervisorVars>>
    /\ UNCHANGED pureVars

\* what a read through a null pointer may yield when it does not trap
Indeterminate ==
    {[command |-> "", run |-> [pid |-> Null, ppid |-> Null, events |-> << >>]]}

\* Reporter::report(builder.build()) when the builder is empty: *ptr
\* dereferences a null pointer, which is undefined: the collector is ended
\* by the trap, or an indeterminate execution is copied and persisted
DerefNull(c, trap) ==
    /\ pc[c] = "received"
    /\ CollectorAlive
    /\ arg[c] = NoExecution
    /\ IF trap
       THEN /\ cstate' = "crashed"
            /\ UNCHANGED reporterVars
       ELSE /\ CanLock(c)
            /\ \E garbage \in Indeterminate :
                  executions' = Append(executions, garbage)
            /\ lockOrder' = Append(lockOrder, c)
            /\ file' = Persisted(file, Serialize(executions'),
                                 Len(Serialize(executions')))
            /\ ret' = [ret EXCEPT ![c] = "ok"]
            /\ pc' = [pc EXCEPT ![c] = "done"]
            /\ UNCHANGED <<arg, mutex, stream, snap, observed, cstate>>
    /\ UNCHANGED <<cpc, server, address, requested, CHILD_PROCESS, reaped,
                   result, flushed, spawnCtx, sent, logged, nSignals, lastSig>>
    /\ UNCHANGED <<builderVars, supervisorVars>>
    /\ UNCHANGED pureVars

\* no call of the library functions is under way
NoCall == [fn |-> "none"]
NoRet == [state |-> "none"]

PureInit ==
    /\ fcall = NoCall
    /\ fret = NoRet

\* the collector and the supervisors, before the build
ProcessInit == BuilderInit /\ ReporterInit /\ CollectorInit /\ SupervisorInit

Init == ProcessInit /\ PureInit

NextBuilder ==
    \/ \E event \in Events : Add(event)
    \/ Build

SpecBuilder == Init /\ [][NextBuilder]_vars

NextReporter ==
    \/ \E c \in 1..NumCalls, program \in Programs : ReportCall(c, program, 0)
    \/ \E c \in 1..NumCalls : Lock(c)
    \/ \E c \in 1..NumCalls : PushBack(c)
    \/ \E c \in 1..NumCalls, ok \in BOOLEAN : PersistOpen(c, ok)
    \/ \E c \in 1..NumCalls, ok \in BOOLEAN : PersistWrite(c, ok)
    \/ \E c \in 1..NumCalls : Return(c)
    \/ Read

SpecReporter == Init /\ [][NextReporter]_vars

\* the steps of the collector's Application::operator()
CollectorStep ==
    \/ BuildAndStart
    \/ SetServerAddress
    \/ InstallHandlers
    \/ \E ok \in BOOLEAN : Supervise(ok)
    \/ \E ok \in BOOLEAN : Spawn(ok)
    \/ RecordChild
    \/ \E ok \in BOOLEAN : Wait(ok)
    \/ ClearChild
    \/ Shutdown
    \/ Flush
    \/ ReturnResult

\* the steps of supervisor s and of the worker thread that serves its report
SupervisorStep(s) ==
    \/ \E ok \in BOOLEAN : GetEnvironmentUpdate(s, ok)
    \/ \E ok \in BOOLEAN : SupSpawn(s, ok)
    \/ \E ok \in BOOLEAN : GetCwd(s, ok)
    \/ \E ok \in BOOLEAN, exit \in ExitCodes : WaitPid(s, ok, exit)
    \/ StopAndReport(s)
    \/ SupReturn(s)
    \/ \E signum \in SupSignalInputs : SupSignal(s, signum)
    \/ Die(s)
    \/ \E k \in -1..MaxParts : HandleReport(s, k)
    \/ \E trap \in BOOLEAN : DerefNull(s, trap)

\* the collector, the signals that reach it, and its top-level child
Next ==
    \/ CollectorStep
    \/ \E signum \in SignalInputs : Handler(signum)
    \/ \E signum \in SignalInputs : DefaultDisposition(signum)
    \/ SupervisorStep(TopLevel)

Spec == Init /\ [][Next]_vars

\* the collector and the supervisors of all the processes of a build
NextBuild ==
    \/ CollectorStep
    \/ \E s \in Sups : SupStart(s)
    \/ \E s \in Sups : SupervisorStep(s)

SpecBuild == Init /\ [][NextBuild]_vars

\* ----------------------------------------------------------------- claims
StopPositions(execution) ==
    {i \in 1..Len(execution.run.events) : execution.run.events[i].type = "stop"}

\* The Run invariant of the data model.
RunInvariant(execution) ==
    /\ Len(execution.run.events) >= 1
    /\ execution.run.events[1].type = "start"
    /\ Cardinality(StopPositions(execution)) <= 1
    /\ \A i \in StopPositions(execution) : i = Len(execution.run.events)

\* C1: after any sequence of add calls the event list of the held execution
\* starts with 'start', has at most one 'stop', and a 'stop' is the last event.
C1_RunInvariant ==
    execution_ # NoExecution => RunInvariant(execution_[1])

\* C2: an out-of-state event is dropped without changing the builder: a
\* signalled or stopped event on an empty builder leaves it empty (so build
\* yields no execution), a started event on an open builder leaves its
\* command, pid/ppid and events as they were.
C2_OutOfStateDropped ==
    [][/\ (nAdds' = nAdds + 1) =>
          /\ (execution_ = NoExecution
                /\ lastEvent'[1].type \in {"signalled", "stopped"})
                => execution_' = NoExecution
          /\ (execution_ # NoExecution /\ lastEvent'[1].type = "started")
                => execution_' = execution_
       /\ (nAdds' = nAdds /\ execution_ = NoExecution)
             => built' = NoExecution]_vars

\* C2 witness: a second started event, naming another program, was dropped
\* by an open builder.
C2_Witness ==
    /\ execution_ # NoExecution
    /\ lastEvent # NoEvent
    /\ lastEvent[1].type = "started"
    /\ nAdds >= 2
    /\ lastEvent[1].executable # execution_[1].command

\* the list positions of a call's execution in the in-memory report
PositionsOf(c) ==
    {i \in 1..Len(executions) : arg[c] # NoExecution /\ executions[i] = arg[c][1]}

\* the calls that have appended their execution
Appended == {c \in Calls : pc[c] \in {"open", "write", "done"}}

IsWholeDocument(f) ==
    /\ f.exists
    /\ \E k \in 0..Len(executions) : f.data = Serialize(SubSeq(executions, 1, k))

\* C4: a reader of the report file sees the complete previous document or
\* the complete new one (or no file before the first persist), never an
\* empty or partially written file.
C4_ReaderSeesWholeDocument ==
    observed = NoFile \/ IsWholeDocument(observed)

\* C5: a failed write of the report file is returned to the RPC caller as a
\* failed response.
C5_WriteFailurePropagates ==
    \A c \in Calls : (pc[c] = "done" /\ ~snap[c].good) => ret[c] = "failed"

\* the executions of supervisor s in a report file
ReportedOf(f, s) ==
    {i \in 1..Len(f.data) :
        /\ f.data[i].kind = "execution"
        /\ f.data[i].execution[1].run.pid = s}

\* C6: when a supervisor dies after its program started and before it
\* stopped, the report written at the collector's shutdown contains that
\* execution with its 'start' event.
C6_DeadSupervisorReported ==
    (cpc = "done" /\ flushed) =>
        \A s \in Sups :
            (diedAt[s] = "wait" /\ Len(events[s]) = 1) =>
                \E i \in ReportedOf(file, s) :
                    file.data[i].execution[1].run.events[1].type = "start"

\* the positions of Application::operator() after child.wait() returned
AfterWait == {"clear", "shutdown", "flush", "return", "done"}

C9_NoUncatchableSignal ==
    SIGKILL \notin requested /\ SIGSTOP \notin requested

\* C10: the collector's exit code is the top-level child's exit code
\* (within 0..255) when the child exited, 128+signal when a signal ended it,
\* and EXIT_FAILURE when the command could not be started.
C10_ExitCode ==
    cpc = "done" =>
        /\ (reaped /\ sexit[TopLevel].state = "exited")
              => /\ MainExitCode(result) = sexit[TopLevel].code
                 /\ MainExitCode(result) \in 0..255
        /\ (reaped /\ sexit[TopLevel].state = "signaled")
              => MainExitCode(result) = 128 + sexit[TopLevel].code
        /\ ~spawnCtx.spawned => MainExitCode(result) = EXIT_FAILURE

\* the events of supervisor s have been handed to the collector
EventsSent(s) == pc[s] # "idle"

\* C11: in every supervisor run the environment overlay is obtained, then
\* the program is spawned, then the 'started' event is sent, then the
\* supervisor waits, then the 'stopped' event is sent; the supervisor's
\* result is the exit status. So a supervisor that waits for its child, or
\* has waited, with a collector to talk to, has sent its 'started' event.
C11_SupervisorOrder ==
    \A s \in Sups :
        /\ (/\ spc[s] \in {"wait", "stop"}
            /\ Len(events[s]) >= 1
            /\ server = "listening"
            /\ CollectorAlive) => EventsSent(s)
        /\ (spc[s] = "exited" /\ pc[s] = "done") => sexit[s].state = "exited"

\* the signalled event a supervisor would post for a signal
SignalledEvent(number) ==
    [type |-> "signalled", executable |-> "", pid |-> 0, ppid |-> 0,
     status |-> 0, number |-> number]

\* C12: a supervisor that receives a signal while it waits for its child
\* passes the signal on to the child, adds a 'signalled' event with the
\* signal number, and goes on waiting.
C12_SupervisorForwardsSignal ==
    [][\A s \in Sups :
        (/\ spc[s] = "wait"
         /\ Len(ssig'[s].received) = Len(ssig[s].received) + 1) =>
            LET signum == ssig'[s].received[Len(ssig'[s].received)] IN
            /\ ssig'[s].forwarded = Append(ssig[s].forwarded, signum)
            /\ events'[s] = Append(events[s], SignalledEvent(signum))
            /\ spc'[s] = "wait"]_vars

\* ----------------------------------- the preload library: Executor, Session
\* <errno.h>
ENOENT == 2
EIO == 5
ENOEXEC == 8
EACCES == 13
EFAULT == 14

\* the longest search path explored, in characters
MaxPathLen == 3
\* the longest argv explored
MaxArgs == 2

\* A C string is the sequence of its characters; a pointer is Nil (nullptr)
\* or <<what it points to>>.
Nil == << >>
Ptr(x) == <<x>>

PATH_SEPARATOR == ":"
DIR_SEPARATOR == "/"

\* er::flags of the library of part_001
er_flags_DESTINATION == <<"--destination">>
er_flags_VERBOSE == <<"--verbose">>
er_flags_EXECUTE == <<"--execute">>
er_flags_COMMAND == <<"--">>

\* pear::flag of the library of Executor.cc
pear_flag_DESTINATION == <<"--session-destination">>
pear_flag_LIBRARY == <<"--session-library">>
pear_flag_VERBOSE == <<"--session-verbose">>
pear_flag_PATH == <<"--exec-path">>
pear_flag_FILE == <<"--exec-file">>
pear_flag_COMMAND == <<"--">>

\* the values a session variable has in the runs explored: absent, empty,
\* set
SessionValues == {Nil, Ptr(<< >>), Ptr(<<"v">>)}

IsSet(value) == value # Nil /\ value[1] # << >>

\* the sessions explored: all three variables set, or all but one
Sessions ==
    {s \in [library : SessionValues, reporter : SessionValues,
            destination : SessionValues, verbose : BOOLEAN] :
        Cardinality({k \in {"library", "reporter", "destination"} :
                        ~IsSet(s[k])}) <= 1}

\* session::is_valid
is_valid(session) ==
    /\ session.library # Nil
    /\ session.reporter # Nil
    /\ session.destination # Nil

\* the file system explored: the file f in the directories a and b does not
\* exist ("none"), exists ("file") or is executable ("exec"); b may be a
\* symbolic link to a
FileStates == {"none", "file", "exec"}

FileSystems ==
    {fs \in [a : FileStates, b : FileStates, link : BOOLEAN] :
        fs.link => fs.b = fs.a}

PathOf(dir) == <<dir, DIR_SEPARATOR, "f">>

PathState(fs, path) ==
    IF path = PathOf("a") THEN fs.a
    ELSE IF path = PathOf("b") THEN fs.b
    ELSE "none"

\* Resolver::realpath: nullptr when the file does not exist, else the path
\* with symbolic links resolved
realpath(fs, path) ==
    IF PathState(fs, path) = "none" THEN Nil
    ELSE IF fs.link /\ path = PathOf("b") THEN Ptr(PathOf("a"))
    ELSE Ptr(path)

\* Resolver::access: 0 on success, else the errno it sets
access(fs, path, mode) ==
    LET state == PathState(fs, path) IN
    IF state = "none" THEN ENOENT
    ELSE IF mode = "X_OK" /\ state # "exec" THEN EACCES
    ELSE 0

\* confstr(_CS_PATH)
ConfstrPath == <<"b">>

\* the strings of length 0..n over a set of characters
StringsUpTo(chars, n) == UNION {[1..k -> chars] : k \in 0..n}

\* the search paths explored
SearchPaths == StringsUpTo({"a", "b", PATH_SEPARATOR}, MaxPathLen)

\* the argument vectors explored: argv[0] and up to MaxArgs - 1 arguments
Argvs == {[i \in 1..k |-> IF i = 1 THEN <<"f">> ELSE <<"-c">>] : k \in 1..MaxArgs}

\* PathResolver::Result; diverges: the call never returns
PathResult(return_value, error_code) ==
    [return_value |-> return_value, error_code |-> error_code,
     diverges |-> FALSE]

Diverges == [return_value |-> Nil, error_code |-> 0, diverges |-> TRUE]

\* PathResolver::Result::operator bool
Found(res) == res.return_value # Nil /\ res.error_code = 0

\* PathResolver::from_current_directory
from_current_directory(fs, fname) ==
    LET result_ == realpath(fs, fname) IN
    IF result_ = Nil THEN PathResult(Nil, ENOENT)
    ELSE IF access(fs, result_[1], "X_OK") = 0 THEN PathResult(result_, 0)
    ELSE IF access(fs, result_[1], "F_OK") = 0 THEN PathResult(Nil, EACCES)
    ELSE PathResult(Nil, ENOENT)

\* next_path_separator: the index of the first ':' of input, or of its end
next_path_separator(input) ==
    IF \E i \in 1..Len(input) : input[i] = PATH_SEPARATOR
    THEN CHOOSE i \in 1..Len(input) :
            /\ input[i] = PATH_SEPARATOR
            /\ \A j \in 1..(i - 1) : input[j] # PATH_SEPARATOR
    ELSE Len(input) + 1

\* contains_dir_separator
contains_dir_separator(candidate) ==
    \E i \in 1..Len(candidate) : candidate[i] = DIR_SEPARATOR

\* PathBuilder::assemble: prefix, '/', file
PathBuilder(prefix, fname) == prefix \o <<DIR_SEPARATOR>> \o fname

\* the do-while loop of PathResolver::from_search_path, from current on: on
\* an empty entry 'continue' jumps to the test 'current != nullptr' with
\* current as it was, so the loop never ends
RECURSIVE SearchLoop(_, _, _)
SearchLoop(fs, fname, current) ==
    LET next == next_path_separator(current)
        prefix == SubSeq(current, 1, next - 1)
    IN  IF prefix = << >> THEN Diverges
        ELSE LET res == from_current_directory(fs, PathBuilder(prefix, fname))
             IN  IF Found(res) THEN res
                 ELSE IF next > Len(current) THEN PathResult(Nil, ENOENT)
                 ELSE SearchLoop(fs, fname, SubSeq(current, next + 1, Len(current)))

\* PathResolver::from_search_path
from_search_path(fs, fname, search_path) ==
    IF contains_dir_separator(fname) THEN from_current_directory(fs, fname)
    ELSE SearchLoop(fs, fname, search_path)

\* PathResolver::from_path: PATH of envp, else confstr(_CS_PATH)
from_path(fs, fname, envp) ==
    IF contains_dir_separator(fname) THEN from_current_directory(fs, fname)
    ELSE IF envp.PATH # Nil THEN from_search_path(fs, fname, envp.PATH[1])
    ELSE from_search_path(fs, fname, ConfstrPath)

\* what a write past the end of the argv buffer may lead to: the terminator
\* is still there when the kernel reads argv, it is not, or the write traps
Overruns == {"intact", "unterminated", "fault"}

\* the word after an array that is not terminated
Garbage == <<"?">>

\* an argv buffer of 'capacity' pointers receives the items and the
\* terminating nullptr
Assembled(items, capacity, overrun) ==
    IF Len(items) + 1 <= capacity \/ overrun = "intact"
    THEN [fault |-> FALSE, argv |-> items]
    ELSE IF overrun = "unterminated"
    THEN [fault |-> FALSE, argv |-> Append(items, Garbage)]
    ELSE [fault |-> TRUE, argv |-> << >>]

\* CommandBuilder::length
CommandBuilder_length(session, argv) ==
    (IF session.verbose THEN 6 ELSE 7) + Len(argv) + 1

\* CommandBuilder::assemble
CommandBuilder_assemble(session, path, argv) ==
    <<session.reporter[1], er_flags_DESTINATION, session.destination[1]>>
    \o (IF session.verbose THEN <<er_flags_VERBOSE>> ELSE << >>)
    \o <<er_flags_EXECUTE, path, er_flags_COMMAND>>
    \o argv

\* what a hook did: state is "returned", "replaced" (the process image was
\* replaced by the underlying execve), "hung" or "fault"; through is the
\* call of the underlying function, if one was made; resolved the program
\* the resolution chose
Ret(state, rv, errno, through, resolved) ==
    [state |-> state, rv |-> rv, errno |-> errno, through |-> through,
     resolved |-> resolved]

\* failure(error_code)
failure(error_code) == Ret("returned", -1, error_code, Nil, Nil)

\* Resolver::execve and Resolver::posix_spawn with the built argv: the
\* reporter named by a non-empty path is started, an empty path is ENOENT
Underlying(fn, image, dst, envp, resolved) ==
    LET through == Ptr([fn |-> fn, image |-> image, argv |-> dst.argv,
                        envp |-> envp])
    IN  IF dst.fault THEN Ret("fault", 0, 0, Nil, resolved)
        ELSE IF image = << >> THEN Ret("returned", -1, ENOENT, through, resolved)
        ELSE IF fn = "execve" THEN Ret("replaced", 0, 0, through, resolved)
        ELSE Ret("returned", 0, 0, through, resolved)

\* the part the five hooks of part_001 share, after the resolution
el_execute(session, executable, argv, envp, fn, overrun) ==
    IF executable.diverges THEN Ret("hung", 0, 0, Nil, Nil)
    ELSE IF Found(executable)
    THEN LET path == executable.return_value[1]
             items == CommandBuilder_assemble(session, path, argv)
             dst == Assembled(items, CommandBuilder_length(session, argv), overrun)
         IN  Underlying(fn, session.reporter[1], dst, envp, Ptr(path))
    ELSE Ret("returned", -1, executable.error_code, Nil, Nil)

\* el::Executor::execve (fn "execve") and posix_spawn (fn "posix_spawn")
el_execve(fs, session, path, argv, envp, fn, overrun) ==
    IF ~is_valid(session) THEN failure(EIO)
    ELSE IF path = Nil THEN failure(EFAULT)
    ELSE el_execute(session, from_current_directory(fs, path[1]),
                    argv, envp, fn, overrun)

\* el::Executor::execvpe (fn "execve") and posix_spawnp (fn "posix_spawn")
el_execvpe(fs, session, fname, argv, envp, fn, overrun) ==
    IF ~is_valid(session) THEN failure(EIO)
    ELSE IF fname = Nil THEN failure(EFAULT)
    ELSE el_execute(session, from_path(fs, fname[1], envp),
                    argv, envp, fn, overrun)

\* el::Executor::execvP
el_execvP(fs, session, fname, search_path, argv, envp, overrun) ==
    IF ~is_valid(session) THEN failure(EIO)
    ELSE IF fname = Nil THEN failure(EFAULT)
    ELSE el_execute(session, from_search_path(fs, fname[1], search_path),
                    argv, envp, "execve", overrun)

\* errno before the hook was called
ErrnoBefore == 0

\* length(Session) of Executor.cc
ear_length_session(session) == IF session.verbose THEN 5 ELSE 6

\* length(Execution) of Executor.cc, for an execution with one of path and
\* file
ear_length_execution(argv) == 2 + Len(argv) + 2

\* copy(Session) and copy(Execution) of Executor.cc
ear_copy(session, flag, target, argv) ==
    <<session.reporter[1], pear_flag_DESTINATION, session.destination[1],
      pear_flag_LIBRARY, session.library[1]>>
    \o (IF session.verbose THEN <<pear_flag_VERBOSE>> ELSE << >>)
    \o <<flag, target, pear_flag_COMMAND>>
    \o argv

\* CREATE_BUFFER and the call of the underlying function, Executor.cc
ear_execute(session, flag, target, argv, envp, fn, overrun) ==
    LET items == ear_copy(session, flag, target, argv)
        capacity == ear_length_execution(argv) + ear_length_session(session) + 1
    IN  Underlying(fn, session.reporter[1],
                   Assembled(items, capacity, overrun), envp, Ptr(target))

\* ear::Executor::execve (fn "execve") and posix_spawn (fn "posix_spawn"):
\* CHECK_SESSION, CHECK_POINTER, CHECK_PATH
ear_execve(fs, session, path, argv, envp, fn, overrun) ==
    IF ~is_valid(session) THEN failure(ErrnoBefore)
    ELSE IF path = Nil THEN failure(ENOENT)
    ELSE IF access(fs, path[1], "X_OK") # 0 THEN failure(ENOEXEC)
    ELSE ear_execute(session, pear_flag_PATH, path[1], argv, envp, fn, overrun)

\* the do-while loop of execute_from_search_path, from current on; errno is
\* the one the last access left
RECURSIVE ear_SearchLoop(_, _, _, _, _, _, _)
ear_SearchLoop(fs, session, fname, current, argv, envp, overrun) ==
    LET next == next_path_separator(current)
        prefix == SubSeq(current, 1, next - 1)
        path == PathBuilder(prefix, fname)
    IN  IF prefix = << >> THEN Ret("hung", 0, 0, Nil, Nil)
        ELSE IF access(fs, path, "X_OK") = 0
        THEN ear_execute(session, pear_flag_PATH, path, argv, envp, "execve", overrun)
        ELSE IF next > Len(current) THEN failure(access(fs, path, "X_OK"))
        ELSE ear_SearchLoop(fs, session, fname,
                            SubSeq(current, next + 1, Len(current)),
                            argv, envp, overrun)

\* execute_from_search_path
execute_from_search_path(fs, session, fname, search_path, argv, envp, overrun) ==
    ear_SearchLoop(fs, session, fname, search_path, argv, envp, overrun)

\* ear::Executor::execvpe
ear_execvpe(fs, session, fname, argv, envp, overrun) ==
    IF ~is_valid(session) THEN failure(ErrnoBefore)
    ELSE IF fname = Nil THEN failure(ENOENT)
    ELSE IF contains_dir_separator(fname[1])
    THEN ear_execve(fs, session, fname, argv, envp, "execve", overrun)
    ELSE execute_from_search_path(fs, session, fname[1],
            IF envp.PATH # Nil THEN envp.PATH[1] ELSE ConfstrPath,
            argv, envp, overrun)

\* ear::Executor::execvP
ear_execvP(fs, session, fname, search_path, argv, envp, overrun) ==
    IF ~is_valid(session) THEN failure(ErrnoBefore)
    ELSE IF fname = Nil THEN failure(ENOENT)
    ELSE IF contains_dir_separator(fname[1])
    THEN ear_execve(fs, session, fname, argv, envp, "execve", overrun)
    ELSE execute_from_search_path(fs, session, fname[1], search_path,
                                  argv, envp, overrun)

\* ear::Executor::posix_spawnp: the file is handed on unresolved
ear_posix_spawnp(fs, session, fname, argv, envp, overrun) ==
    IF ~is_valid(session) THEN failure(ErrnoBefore)
    ELSE IF fname = Nil THEN failure(ENOENT)
    ELSE ear_execute(session, pear_flag_FILE, fname[1], argv, envp,
                     "posix_spawn", overrun)

\* the file arguments explored: nullptr, a bare name, a path
FileArgs == {Nil, Ptr(<<"f">>), Ptr(PathOf("a"))}

HookNames == {"execve", "execvpe", "execvP", "posix_spawn", "posix_spawnp"}

\* the calls of the hooks explored; impl is the Executor the library was
\* built from ("el": part_001, "ear": Executor.cc); search is PATH of envp,
\* and the search path argument of execvP
ExecCalls ==
    {c \in [fn : HookNames, impl : {"el", "ear"}, session : Sessions,
            fname : FileArgs, argv : Argvs, fs : FileSystems,
            search : {Nil} \cup {Ptr(p) : p \in SearchPaths}] :
        c.fn = "execvP" => c.search # Nil}

\* the envp of a call
EnvpOf(c) == [PATH |-> c.search]

processVars == <<builderVars, reporterVars, collectorVars, supervisorVars>>

\* a process of the build is about to call a hook of the library
InitExec ==
    /\ ProcessInit
    /\ fcall \in ExecCalls
    /\ fret = NoRet

\* Executor::execve
Execve(overrun) ==
    /\ fcall.fn = "execve"
    /\ fret = NoRet
    /\ fret' = IF fcall.impl = "el"
               THEN el_execve(fcall.fs, fcall.session, fcall.fname, fcall.argv,
                              EnvpOf(fcall), "execve", overrun)
               ELSE ear_execve(fcall.fs, fcall.session, fcall.fname, fcall.argv,
                               EnvpOf(fcall), "execve", overrun)
    /\ UNCHANGED <<fcall, processVars>>

\* Executor::execvpe
Execvpe(overrun) ==
    /\ fcall.fn = "execvpe"
    /\ fret = NoRet
    /\ fret' = IF fcall.impl = "el"
               THEN el_execvpe(fcall.fs, fcall.session, fcall.fname, fcall.argv,
                               EnvpOf(fcall), "execve", overrun)
               ELSE ear_execvpe(fcall.fs, fcall.session, fcall.fname, fcall.argv,
                                EnvpOf(fcall), overrun)
    /\ UNCHANGED <<fcall, processVars>>

\* Executor::execvP
ExecvP(overrun) ==
    /\ fcall.fn = "execvP"
    /\ fret = NoRet
    /\ fret' = IF fcall.impl = "el"
               THEN el_execvP(fcall.fs, fcall.session, fcall.fname,
                              fcall.search[1], fcall.argv, EnvpOf(fcall), overrun)
               ELSE ear_execvP(fcall.fs, fcall.session, fcall.fname,
                               fcall.search[1], fcall.argv, EnvpOf(fcall), overrun)
    /\ UNCHANGED <<fcall, processVars>>

\* Executor::posix_spawn
PosixSpawn(overrun) ==
    /\ fcall.fn = "posix_spawn"
    /\ fret = NoRet
    /\ fret' = IF fcall.impl = "el"
               THEN el_execve(fcall.fs, fcall.session, fcall.fname, fcall.argv,
                              EnvpOf(fcall), "posix_spawn", overrun)
               ELSE ear_execve(fcall.fs, fcall.session, fcall.fname, fcall.argv,
                               EnvpOf(fcall), "posix_spawn", overrun)
    /\ UNCHANGED <<fcall, processVars>>

\* Executor::posix_spawnp
PosixSpawnp(overrun) ==
    /\ fcall.fn = "posix_spawnp"
    /\ fret = NoRet
    /\ fret' = IF fcall.impl = "el"
               THEN el_execvpe(fcall.fs, fcall.session, fcall.fname, fcall.argv,
                               EnvpOf(fcall), "posix_spawn", overrun)
               ELSE ear_posix_spawnp(fcall.fs, fcall.session, fcall.fname,
                                     fcall.argv, EnvpOf(fcall), overrun)
    /\ UNCHANGED <<fcall, processVars>>

NextExec ==
    \/ \E overrun \in Overruns : Execve(overrun)
    \/ \E overrun \in Overruns : Execvpe(overrun)
    \/ \E overrun \in Overruns : ExecvP(overrun)
    \/ \E overrun \in Overruns : PosixSpawn(overrun)
    \/ \E overrun \in Overruns : PosixSpawnp(overrun)

SpecExec == InitExec /\ [][NextExec]_vars

\* a hook of the library has been called and has acted
HookActed == fcall.fn \in HookNames /\ fret # NoRet

\* the session as the specification reads it: valid iff library, reporter
\* and destination are present and non-empty
SessionPresent(session) ==
    IsSet(session.library) /\ IsSet(session.reporter) /\ IsSet(session.destination)

\* C13: with an invalid session (library, reporter or destination absent or
\* empty) every hook returns -1 with error code EIO and calls neither the
\* underlying execve nor posix_spawn.
C13_InvalidSessionIsEIO ==
    (HookActed /\ ~SessionPresent(fcall.session)) =>
        /\ fret.state = "returned"
        /\ fret.rv = -1
        /\ fret.errno = EIO
        /\ fret.through = Nil

\* the argv the specification gives the reporter
RewrittenArgv(session, path, argv) ==
    <<session.reporter[1], <<"--destination">>, session.destination[1]>>
    \o (IF session.verbose THEN <<(<<"--verbose">>)>> ELSE << >>)
    \o <<(<<"--execute">>), path, (<<"--">>)>>
    \o argv

\* C14: for a valid session and a call of the library of part_001 whose
\* program resolves to P, the underlying function is called with the
\* reporter as image, the caller's envp, and the argv reporter,
\* --destination, dst, --verbose iff verbose, --execute, P, --, A[0..n-1].
C14_RewrittenCall ==
    (/\ HookActed
     /\ fcall.impl = "el"
     /\ SessionPresent(fcall.session)
     /\ fret.resolved # Nil) =>
        /\ fret.through # Nil
        /\ fret.through[1].image = fcall.session.reporter[1]
        /\ fret.through[1].envp = EnvpOf(fcall)
        /\ fret.through[1].argv =
              RewrittenArgv(fcall.session, fret.resolved[1], fcall.argv)

\* the entries of a ':'-separated list
RECURSIVE SplitList(_)
SplitList(list) ==
    LET next == next_path_separator(list) IN
    IF next > Len(list) THEN <<list>>
    ELSE <<SubSeq(list, 1, next - 1)>> \o SplitList(SubSeq(list, next + 1, Len(list)))

\* the search list of a call: PATH of envp when set (the search path
\* argument for execvP), else confstr(_CS_PATH)
SearchListOf(c) == IF c.search # Nil THEN c.search[1] ELSE ConfstrPath

\* the candidates of a call, in list order, empty entries skipped
CandidatesOf(c) ==
    LET dirs == SplitList(SearchListOf(c))
        kept == SelectSeq(dirs, LAMBDA d : d # << >>)
    IN  [i \in 1..Len(kept) |-> kept[i] \o <<DIR_SEPARATOR>> \o c.fname[1]]

\* the candidate the search is to select: the first that is executable
Selected(c) ==
    LET cands == CandidatesOf(c)
        hits == {i \in 1..Len(cands) : PathState(c.fs, cands[i]) = "exec"}
    IN  IF hits = {} THEN Nil
        ELSE Ptr(cands[CHOOSE i \in hits : \A j \in hits : i <= j])

\* a call that searches for a file name without '/'
SearchCall ==
    /\ HookActed
    /\ fcall.fn \in {"execvpe", "execvP", "posix_spawnp"}
    /\ SessionPresent(fcall.session)
    /\ fcall.fname # Nil
    /\ ~contains_dir_separator(fcall.fname[1])

\* C15: for a file name without '/', the resolution takes PATH of envp when
\* set and confstr(_CS_PATH) otherwise, splits it on ':', skips empty
\* entries and returns dir/file of the first entry that is executable.
C15_FirstExecutableEntry ==
    (SearchCall /\ Selected(fcall) # Nil) =>
        /\ fret.state # "hung"
        /\ fret.resolved = Selected(fcall)

\* C16: a search of the library of part_001 that returns without selecting
\* an executable fails with ENOENT when no candidate exists and with EACCES
\* when a candidate exists that is not executable.
C16_SearchFailureErrno ==
    (/\ SearchCall
     /\ fcall.impl = "el"
     /\ fret.state = "returned"
     /\ Selected(fcall) = Nil) =>
        LET cands == CandidatesOf(fcall)
            exists == \E i \in 1..Len(cands) : PathState(fcall.fs, cands[i]) # "none"
        IN  /\ fret.rv = -1
            /\ fret.through = Nil
            /\ fret.errno = IF exists THEN EACCES ELSE ENOENT

\* C17: execve of a path that does not exist fails with ENOENT, as the
\* call does without the library, and the underlying execve is not called,
\* so that nothing is reported for the missing program.
C17_MissingPathIsENOENT ==
    (/\ HookActed
     /\ fcall.fn = "execve"
     /\ SessionPresent(fcall.session)
     /\ fcall.fname # Nil
     /\ PathState(fcall.fs, fcall.fname[1]) = "none") =>
        /\ fret.state = "returned"
        /\ fret.rv = -1
        /\ fret.errno = ENOENT
        /\ fret.through = Nil

\* ---------------------------------------------------------------------
\* Collector session: the environment update (LibraryPreloadSession)
\* ---------------------------------------------------------------------

\* the longest LD_PRELOAD value explored
MaxPreloadLen == 3

GLIBC_PRELOAD_KEY == "LD_PRELOAD"
KEY_REPORTER == "INTERCEPT_REPORT_COMMAND"
KEY_DESTINATION == "INTERCEPT_REPORT_DESTINATION"
KEY_VERBOSE == "INTERCEPT_VERBOSE"
\* a variable the session does not know
KEY_OTHER == "HOME"

\* std::map<std::string, std::string>: a key maps to Nil (no such entry) or
\* to a pointer to its value
EnvKeys == {GLIBC_PRELOAD_KEY, KEY_REPORTER, KEY_DESTINATION, KEY_VERBOSE, KEY_OTHER}

\* the members of the session
LibrarySessions ==
    [library_ : {<<"l">>}, executor_ : {<<"e">>}, server_address_ : {<<"d">>},
     verbose_ : BOOLEAN]

\* the values of LD_PRELOAD explored: lists over the library "l" and
\* another library "a"
PreloadValues == {Nil} \cup {Ptr(v) : v \in StringsUpTo({"l", "a", ":"}, MaxPreloadLen)}

\* the values of the other variables explored
PlainValues == {Nil, Ptr(<<"x">>), Ptr(<<"t", "r", "u", "e">>)}

\* the environments explored
Environments ==
    {[k \in EnvKeys |-> IF k = GLIBC_PRELOAD_KEY THEN preload ELSE plain[k]] :
        preload \in PreloadValues,
        plain \in [EnvKeys \ {GLIBC_PRELOAD_KEY} -> PlainValues]}

\* sys::Context::split_path: the entries between the separators
RECURSIVE split_path(_)
split_path(input) ==
    LET current == next_path_separator(input) IN
    IF current > Len(input) THEN <<input>>
    ELSE <<SubSeq(input, 1, current - 1)>>
             \o split_path(SubSeq(input, current + 1, Len(input)))

\* sys::Context::join_path: the entries with a separator between them
RECURSIVE join_path(_)
join_path(paths) ==
    IF paths = << >> THEN << >>
    ELSE IF Len(paths) = 1 THEN paths[1]
    ELSE paths[1] \o <<PATH_SEPARATOR>> \o join_path(Tail(paths))

\* std::find(paths.begin(), paths.end(), value) != paths.end()
ContainsPath(paths, value) == \E i \in 1..Len(paths) : paths[i] = value

\* env::merge_into_paths
merge_into_paths(current, value) ==
    LET paths == split_path(current) IN
    IF ~ContainsPath(paths, value)
    THEN join_path(<<value>> \o paths)
    ELSE current

\* Session::keep_front_in_path: path first, then the other entries of paths
keep_front_in_path(path, paths) ==
    join_path(<<path>> \o SelectSeq(split_path(paths), LAMBDA p : p # path))

\* env::insert_or_assign
insert_or_assign(target, key, value) == [target EXCEPT ![key] = Ptr(value)]

\* env::insert_or_merge; merged is the value of merger(it->second, value)
insert_or_merge(target, key, value, merged) ==
    IF target[key] # Nil
    THEN [target EXCEPT ![key] = Ptr(merged)]
    ELSE [target EXCEPT ![key] = Ptr(value)]

\* insert_or_merge of the first variant; merged is the value of
\* merger(value, it->second)
first_insert_or_merge(target, key, value, merged) ==
    IF target[key] # Nil
    THEN [target EXCEPT ![key] = Ptr(merged)]
    ELSE [target EXCEPT ![key] = Ptr(value)]

\* LibraryPreloadSession::update
update(session, env) ==
    LET copy1 == insert_or_assign(env, KEY_REPORTER, session.executor_)
        copy2 == insert_or_assign(copy1, KEY_DESTINATION, session.server_address_)
    IN insert_or_merge(copy2, GLIBC_PRELOAD_KEY, session.library_,
                       merge_into_paths(copy2[GLIBC_PRELOAD_KEY][1], session.library_))

\* LibraryPreloadSession::update, first variant
first_update(session, env) ==
    LET copy1 == IF session.verbose_
                 THEN [env EXCEPT ![KEY_VERBOSE] = Ptr(<<"t", "r", "u", "e">>)]
                 ELSE env
        copy2 == [copy1 EXCEPT ![KEY_DESTINATION] = Ptr(session.server_address_)]
        copy3 == [copy2 EXCEPT ![KEY_REPORTER] = Ptr(session.executor_)]
    IN first_insert_or_merge(copy3, GLIBC_PRELOAD_KEY, session.library_,
                             keep_front_in_path(session.library_,
                                                copy3[GLIBC_PRELOAD_KEY][1]))

\* the two LibraryPreloadSession classes of the source
SessionVariants == {"first", "second"}

\* the calls of update explored
UpdateCalls ==
    [fn : {"update"}, variant : SessionVariants, session : LibrarySessions,
     env : Environments]

\* a supervisor is about to ask for the environment update
InitEnv ==
    /\ ProcessInit
    /\ fcall \in UpdateCalls
    /\ fret = NoRet

\* LibraryPreloadSession::update of the second variant answers
Update ==
    /\ fcall.fn = "update"
    /\ fcall.variant = "second"
    /\ fret = NoRet
    /\ fret' = [state |-> "returned", env |-> update(fcall.session, fcall.env)]
    /\ UNCHANGED <<fcall, processVars>>

\* LibraryPreloadSession::update of the first variant answers
FirstUpdate ==
    /\ fcall.fn = "update"
    /\ fcall.variant = "first"
    /\ fret = NoRet
    /\ fret' = [state |-> "returned", env |-> first_update(fcall.session, fcall.env)]
    /\ UNCHANGED <<fcall, processVars>>

NextEnv == Update \/ FirstUpdate

SpecEnv == InitEnv /\ [][NextEnv]_vars

\* the environment update has answered
Updated == fcall.fn = "update" /\ fret # NoRet

\* the entries of a ':'-separated list, as the specification reads it
EntriesOf(list) == {SplitList(list)[i] : i \in 1..Len(SplitList(list))}

\* C18: the environment update returns the input environment with every
\* variable other than the reporter, destination and LD_PRELOAD keys
\* unchanged; LD_PRELOAD is the library path when it was absent, gets the
\* library path inserted at the front when the library is not among its
\* ':'-separated entries, and is left exactly as it was when the library
\* is already one of its entries.
C18_EnvironmentUpdate ==
    Updated =>
        /\ \A k \in EnvKeys \ {KEY_REPORTER, KEY_DESTINATION, GLIBC_PRELOAD_KEY} :
               fret.env[k] = fcall.env[k]
        /\ LET before == fcall.env[GLIBC_PRELOAD_KEY]
               after == fret.env[GLIBC_PRELOAD_KEY]
               library == fcall.session.library_
           IN IF before = Nil
              THEN after = Ptr(library)
              ELSE IF library \in EntriesOf(before[1])
              THEN after = before
              ELSE after = Ptr(library \o <<PATH_SEPARATOR>> \o before[1])

\* ---------------------------------------------------------------------
\* Semantic recognition: the flag parsers of the compiler recogniser
\* ---------------------------------------------------------------------

\* the longest argv tail explored
MaxTokens == 3

\* a regular expression of the flag tables: one of the prefixes followed
\* by nothing ("none"), by (.*) ("star") or by (.+) ("plus")
Regex(prefixes, rest) == [prefixes |-> prefixes, rest |-> rest]

IsPrefix(p, argument) == Len(p) <= Len(argument) /\ SubSeq(argument, 1, Len(p)) = p

\* std::regex_match
regex_match(argument, re) ==
    \E p \in re.prefixes :
        /\ IsPrefix(p, argument)
        /\ CASE re.rest = "none" -> Len(argument) = Len(p)
             [] re.rest = "star" -> TRUE
             [] re.rest = "plus" -> Len(argument) > Len(p)

\* FlagDefinition::by_name
by_name(name, count, type) ==
    [name_ |-> Ptr(name), pattern_ |-> Nil, count_ |-> count, type_ |-> type]

\* FlagDefinition::by_pattern
by_pattern(pattern, count, type) ==
    [name_ |-> Nil, pattern_ |-> Ptr(pattern), count_ |-> count, type_ |-> type]

\* FlagDefinition::match_by_name
match_by_name(definition, argument) ==
    IF argument = definition.name_[1]
    THEN Ptr([count |-> definition.count_, type |-> definition.type_])
    ELSE Nil

\* FlagDefinition::match_by_pattern
match_by_pattern(definition, argument) ==
    IF regex_match(argument, definition.pattern_[1])
    THEN Ptr([count |-> definition.count_, type |-> definition.type_])
    ELSE Nil

\* FlagDefinition::match
match(definition, argument) ==
    IF definition.name_ # Nil
    THEN match_by_name(definition, argument)
    ELSE match_by_pattern(definition, argument)

\* KindOfOutputFlagMatcher::FLAGS
KindOfOutput_FLAGS == <<
    by_name("-x", 1, "KIND_OF_OUTPUT"),
    by_name("-c", 0, "KIND_OF_OUTPUT_NO_LINKING"),
    by_name("-S", 0, "KIND_OF_OUTPUT_NO_LINKING"),
    by_name("-E", 0, "KIND_OF_OUTPUT_NO_LINKING"),
    by_name("-o", 1, "KIND_OF_OUTPUT_OUTPUT"),
    by_name("-dumpbase", 1, "KIND_OF_OUTPUT"),
    by_name("-dumpbase-ext", 1, "KIND_OF_OUTPUT"),
    by_name("-dumpdir", 1, "KIND_OF_OUTPUT"),
    by_name("-v", 0, "KIND_OF_OUTPUT"),
    by_name("-###", 0, "KIND_OF_OUTPUT"),
    by_name("--help", 0, "KIND_OF_OUTPUT_INFO"),
    by_name("--target-help", 0, "KIND_OF_OUTPUT_INFO"),
    by_pattern(Regex({"--help="}, "plus"), 0, "KIND_OF_OUTPUT_INFO"),
    by_name("--version", 0, "KIND_OF_OUTPUT_INFO"),
    by_name("-pass-exit-codes", 0, "KIND_OF_OUTPUT"),
    by_name("-pipe", 0, "KIND_OF_OUTPUT"),
    by_pattern(Regex({"-specs="}, "plus"), 0, "KIND_OF_OUTPUT"),
    by_name("-wrapper", 1, "KIND_OF_OUTPUT"),
    by_pattern(Regex({"-ffile-prefix-map="}, "plus"), 0, "KIND_OF_OUTPUT"),
    by_name("-fplugin", 1, "KIND_OF_OUTPUT"),
    by_pattern(Regex({"-fplugin="}, "plus"), 0, "KIND_OF_OUTPUT"),
    by_name("-fplugin-argument-name-key", 1, "KIND_OF_OUTPUT"),
    by_pattern(Regex({"-fplugin-argument-name-key="}, "plus"), 0, "KIND_OF_OUTPUT"),
    by_pattern(Regex({"-fdump-ada-spec"}, "star"), 0, "KIND_OF_OUTPUT"),
    by_pattern(Regex({"-fada-spec-parent="}, "plus"), 0, "KIND_OF_OUTPUT"),
    by_pattern(Regex({"-fdump-go-sepc="}, "plus"), 0, "KIND_OF_OUTPUT"),
    by_pattern(Regex({"@"}, "plus"), 0, "KIND_OF_OUTPUT") >>

\* PreprocessorFlagMatcher::FLAGS
Preprocessor_FLAGS == <<
    by_name("-A", 1, "PREPROCESSOR"),
    by_pattern(Regex({"-A"}, "plus"), 0, "PREPROCESSOR"),
    by_name("-D", 1, "PREPROCESSOR"),
    by_pattern(Regex({"-D"}, "plus"), 0, "PREPROCESSOR"),
    by_name("-U", 1, "PREPROCESSOR"),
    by_pattern(Regex({"-U"}, "plus"), 0, "PREPROCESSOR"),
    by_name("-include", 1, "PREPROCESSOR"),
    by_name("-imacros", 1, "PREPROCESSOR"),
    by_name("-undef", 0, "PREPROCESSOR"),
    by_name("-pthread", 0, "PREPROCESSOR"),
    by_pattern(Regex({"-M", "-MM", "-MG", "-MP", "-MD", "-MMD"}, "none"), 0,
               "PREPROCESSOR_MAKE"),
    by_pattern(Regex({"-MF", "-MT", "-MQ"}, "none"), 1, "PREPROCESSOR_MAKE"),
    by_pattern(Regex({"-C", "-CC", "-P", "-traditional", "-traditional-cpp",
                      "-trigraphs", "-remap", "-H"}, "none"), 0, "PREPROCESSOR"),
    by_pattern(Regex({"-dM", "-dD", "-dN", "-dI", "-dU"}, "none"), 0, "PREPROCESSOR"),
    by_name("-Xpreprocessor", 1, "PREPROCESSOR"),
    by_pattern(Regex({"-Wp,"}, "plus"), 0, "PREPROCESSOR") >>

\* DirectorySearchFlagMatcher::FLAGS
DirectorySearch_FLAGS == <<
    by_name("-I", 1, "DIRECTORY_SEARCH"),
    by_name("-I(.+)", 0, "DIRECTORY_SEARCH"),
    by_name("-iplugindir", 1, "DIRECTORY_SEARCH"),
    by_pattern(Regex({"-iplugindir="}, "plus"), 0, "DIRECTORY_SEARCH"),
    by_pattern(Regex({"-i"}, "star"), 1, "DIRECTORY_SEARCH"),
    by_pattern(Regex({"-nostdinc", "-nostdinc++", "-no-canonical-prefixes",
                      "-no-sysroot-suffix"}, "none"), 0, "DIRECTORY_SEARCH"),
    by_name("-L", 1, "DIRECTORY_SEARCH_LINKER"),
    by_pattern(Regex({"-L"}, "plus"), 0, "DIRECTORY_SEARCH_LINKER"),
    by_name("-B", 1, "DIRECTORY_SEARCH"),
    by_pattern(Regex({"-B"}, "plus"), 0, "DIRECTORY_SEARCH"),
    by_name("--sysroot", 1, "DIRECTORY_SEARCH"),
    by_pattern(Regex({"--sysroot="}, "plus"), 0, "DIRECTORY_SEARCH") >>

\* LinkerFlagMatcher::FLAGS
Linker_FLAGS == <<
    by_pattern(Regex({"-flinker-output="}, "plus"), 0, "LINKER"),
    by_pattern(Regex({"-fuse-ld="}, "plus"), 0, "LINKER"),
    by_name("-l", 1, "LINKER"),
    by_pattern(Regex({"-l"}, "plus"), 0, "LINKER"),
    by_pattern(Regex({"-nostartfiles", "-nodefaultlibs", "-nolibc", "-nostdlib"},
                     "none"), 0, "LINKER"),
    by_name("-e", 1, "LINKER"),
    by_pattern(Regex({"-entry="}, "plus"), 0, "LINKER"),
    by_pattern(Regex({"-pie", "-no-pie", "-static-pie"}, "none"), 0, "LINKER"),
    by_pattern(Regex({"-r", "-rdynamic", "-s", "-symbolic"}, "none"), 0, "LINKER"),
    by_pattern(Regex({"-static", "-shared", "-static-libgcc", "-shared-libgcc"},
                     "none"), 0, "LINKER"),
    by_pattern(Regex({"-static-libasan", "-static-libtsan", "-static-liblsan",
                      "-static-libubsan", "-static-libstdc++"}, "none"), 0, "LINKER"),
    by_name("-T", 1, "LINKER"),
    by_name("-Xlinker", 1, "LINKER"),
    by_pattern(Regex({"-Wl,"}, "plus"), 0, "LINKER"),
    by_name("-u", 1, "LINKER"),
    by_name("-z", 1, "LINKER") >>

\* SourceMatcher::EXTENSIONS
EXTENSIONS == {
    ".h", ".hh", ".H", ".hp", ".hxx", ".hpp", ".HPP", ".h++", ".tcc",
    ".c", ".C",
    ".cc", ".CC", ".c++", ".C++", ".cxx", ".cpp", ".cp",
    ".m", ".mi", ".mm", ".M", ".mii",
    ".i", ".ii",
    ".s", ".S", ".sx", ".asm",
    ".f", ".for", ".ftn",
    ".F", ".FOR", ".fpp", ".FPP", ".FTN",
    ".f90", ".f95", ".f03", ".f08",
    ".F90", ".F95", ".F03", ".F08",
    ".go",
    ".brig",
    ".d", ".di", ".dd",
    ".ads", ".abd" }

\* EverythingElseFlagMatcher::FLAGS
EverythingElse_FLAGS == <<
    by_name("-Xassembler", 1, "OTHER"),
    by_pattern(Regex({"-Wa,"}, "star"), 0, "OTHER"),
    by_name("-ansi", 0, "OTHER"),
    by_name("-aux-info", 1, "OTHER"),
    by_pattern(Regex({"-std="}, "star"), 0, "OTHER"),
    by_pattern(Regex({"-O", "-g"}, "star"), 0, "OTHER"),
    by_pattern(Regex({"-f", "-m", "-p", "-W"}, "plus"), 0, "OTHER"),
    by_pattern(Regex({"-no", "-tno", "-save", "-d", "-Wa,"}, "plus"), 0, "OTHER"),
    by_pattern(Regex({"-E", "-Q", "-X", "-Y"}, "plus"), 0, "OTHER"),
    by_pattern(Regex({"--"}, "plus"), 0, "OTHER"),
    by_pattern(Regex({""}, "plus"), 0, "LINKER_OBJECT_FILE") >>

\* rust::Ok(std::make_pair(compiler_flag, remainder))
ParseOk(compiler_flag, remainder) ==
    [state |-> "ok", flag |-> compiler_flag, remainder |-> remainder]

\* rust::Err(input)
ParseErr(input) == [state |-> "err", remainder |-> input]

\* std::next(begin, count + 1) steps past input.end: the flag has fewer
\* operands left than it needs, and the iterator leaves the list
ParseOverrun(input) == [state |-> "overrun", remainder |-> input]

\* the least member of a non-empty set of indices
First(indices) == CHOOSE i \in indices : \A j \in indices : i <= j

\* FlagMatcher::parse over the table FLAGS; input is the segment
\* [input.begin, input.end) and is not empty
FlagMatcher_parse(FLAGS, input) ==
    LET front == input[1]
        matching == {it \in 1..Len(FLAGS) : match(FLAGS[it], front) # Nil}
    IN IF matching = {} THEN ParseErr(input)
       ELSE LET found == match(FLAGS[First(matching)], front)[1]
                end == found.count + 1
            IN IF end > Len(input) THEN ParseOverrun(input)
               ELSE ParseOk([arguments |-> SubSeq(input, 1, end), type |-> found.type],
                            SubSeq(input, end + 1, Len(input)))

\* SourceMatcher::take_extension: from the last '.' on, or the whole name
take_extension(fname) ==
    LET dots == {i \in 1..Len(fname) : SubSeq(fname, i, i) = "."} IN
    IF dots = {} THEN fname
    ELSE LET pos == CHOOSE i \in dots : \A j \in dots : j <= i
         IN SubSeq(fname, pos, Len(fname))

\* SourceMatcher::parse
SourceMatcher_parse(input) ==
    IF take_extension(input[1]) \in EXTENSIONS
    THEN ParseOk([arguments |-> SubSeq(input, 1, 1), type |-> "SOURCE"],
                 SubSeq(input, 2, Len(input)))
    ELSE ParseErr(input)

\* the parsers: a flag matcher with its table, or the source matcher
KindOfOutputFlagMatcher == [matcher |-> "KindOfOutput", FLAGS |-> KindOfOutput_FLAGS]
PreprocessorFlagMatcher == [matcher |-> "Preprocessor", FLAGS |-> Preprocessor_FLAGS]
DirectorySearchFlagMatcher ==
    [matcher |-> "DirectorySearch", FLAGS |-> DirectorySearch_FLAGS]
LinkerFlagMatcher == [matcher |-> "Linker", FLAGS |-> Linker_FLAGS]
SourceMatcher == [matcher |-> "Source", FLAGS |-> << >>]
EverythingElseFlagMatcher ==
    [matcher |-> "EverythingElse", FLAGS |-> EverythingElse_FLAGS]

\* parser.parse(input)
parser_parse(parser, input) ==
    IF parser.matcher = "Source"
    THEN SourceMatcher_parse(input)
    ELSE FlagMatcher_parse(parser.FLAGS, input)

\* Any::parse: the result of the first parser that does not fail
RECURSIVE Any_parse(_, _)
Any_parse(parsers, input) ==
    IF parsers = << >> THEN ParseErr(input)
    ELSE LET parsed == parser_parse(Head(parsers), input) IN
         IF parsed.state # "err" THEN parsed
         ELSE Any_parse(Tail(parsers), input)

\* what stepping an iterator of std::list past end() leads to: the read of
\* the list's end node as a string traps or throws ("fault"), or the
\* iterator wraps around to argv[0] and the loop of parse parses the same
\* arguments again and again until memory is used up ("exhausts")
IteratorOverruns == {"fault", "exhausts"}

\* the loop of parse(command, parser)
RECURSIVE ParseLoop(_, _, _, _)
ParseLoop(parser, input, flags, overrun) ==
    IF input = << >> THEN [state |-> "ok", flags |-> flags]
    ELSE LET parsed == Any_parse(parser, input) IN
         IF parsed.state = "overrun"
         THEN [state |-> overrun, flags |-> flags, remainder |-> parsed.remainder]
         ELSE IF parsed.state = "err"
         THEN [state |-> "err", flags |-> << >>, remainder |-> parsed.remainder]
         ELSE ParseLoop(parser, parsed.remainder, Append(flags, parsed.flag), overrun)

\* parse(command, parser): the input starts at std::next(arguments.begin())
parse(arguments, parser, overrun) == ParseLoop(parser, Tail(arguments), << >>, overrun)

\* the parser chain of gcc::parse, with another order of the parsers
GccParsers_SourceLast ==
    << KindOfOutputFlagMatcher, PreprocessorFlagMatcher, DirectorySearchFlagMatcher,
       LinkerFlagMatcher, EverythingElseFlagMatcher, SourceMatcher >>

\* the parser chain of gcc::parse
GccParsers ==
    << KindOfOutputFlagMatcher, PreprocessorFlagMatcher, DirectorySearchFlagMatcher,
       LinkerFlagMatcher, SourceMatcher, EverythingElseFlagMatcher >>

\* sys::path::split: the entries between the separators
RECURSIVE path_split(_)
path_split(input) ==
    LET separators == {i \in 1..Len(input) : SubSeq(input, i, i) = PATH_SEPARATOR} IN
    IF separators = {} THEN <<input>>
    ELSE <<SubSeq(input, 1, First(separators) - 1)>>
             \o path_split(SubSeq(input, First(separators) + 1, Len(input)))

\* the entries of one include path variable as flags
PathFlags(environment, key, name) ==
    IF environment[key] = Nil THEN << >>
    ELSE LET paths == path_split(environment[key][1]) IN
         [i \in 1..Len(paths) |->
             [arguments |-> <<name, IF paths[i] = "" THEN "." ELSE paths[i]>>,
              type |-> "DIRECTORY_SEARCH"]]

\* gcc::flags_from_environment
flags_from_environment(environment) ==
    PathFlags(environment, "CPATH", "-I")
        \o PathFlags(environment, "C_INCLUDE_PATH", "-I")
        \o PathFlags(environment, "CPLUS_INCLUDE_PATH", "-I")
        \o PathFlags(environment, "OBJC_INCLUDE_PATH", "-isystem")

\* gcc::parse
gcc_parse(command, overrun) ==
    LET parsed == parse(command.arguments, GccParsers, overrun) IN
    IF parsed.state = "ok"
    THEN [parsed EXCEPT !.flags = parsed.flags \o flags_from_environment(command.environment)]
    ELSE parsed

\* the tokens explored: a flag without operand, flags with one operand of
\* the first, third and last parser, a glued flag, a source file, an object
\* file, and the empty string that no parser matches
Tokens == {"-c", "-o", "-I", "-Ia", "-lm", "a.c", "-Xassembler", "a.o", ""}

\* the command lines explored: the compiler and up to MaxTokens tokens
CommandLines == {<<"cc">> \o tail : tail \in StringsUpTo(Tokens, MaxTokens)}

IncludeKeys == {"CPATH", "C_INCLUDE_PATH", "CPLUS_INCLUDE_PATH", "OBJC_INCLUDE_PATH"}

\* the environments of a command explored: each include path variable is
\* unset or holds an empty entry and a directory
IncludeEnvironments == [IncludeKeys -> {Nil, Ptr(":a")}]

\* the calls of the parsers explored
ParseCalls ==
    [fn : {"parse"}, arguments : CommandLines,
     environment : {[k \in IncludeKeys |-> Nil]}]
    \cup [fn : {"gcc::parse"}, arguments : CommandLines,
          environment : IncludeEnvironments]

\* the recogniser is about to parse a command
InitParse ==
    /\ ProcessInit
    /\ fcall \in ParseCalls
    /\ fret = NoRet

\* parse(command, parser) with the parser chain of gcc::parse
Parse(overrun) ==
    /\ fcall.fn = "parse"
    /\ fret = NoRet
    /\ fret' = parse(fcall.arguments, GccParsers, overrun)
    /\ UNCHANGED <<fcall, processVars>>

\* gcc::parse
GccParse(overrun) ==
    /\ fcall.fn = "gcc::parse"
    /\ fret = NoRet
    /\ fret' = gcc_parse(fcall, overrun)
    /\ UNCHANGED <<fcall, processVars>>

NextParse ==
    \/ \E overrun \in IteratorOverruns : Parse(overrun)
    \/ \E overrun \in IteratorOverruns : GccParse(overrun)

SpecParse == InitParse /\ [][NextParse]_vars

\* the parser chain has been applied to a command line
ChainActed == fcall.fn = "parse" /\ fret # NoRet

\* a parser has been applied to a command line
ParserActed == fcall.fn \in {"parse", "gcc::parse"} /\ fret # NoRet

\* the order of the parsers as the specification gives it
ParserOrder ==
    << KindOfOutputFlagMatcher, PreprocessorFlagMatcher, DirectorySearchFlagMatcher,
       LinkerFlagMatcher, SourceMatcher, EverythingElseFlagMatcher >>

\* the parser recognises the token, whatever follows it
Recognises(parser, token) == parser_parse(parser, <<token>>).state # "err"

\* the parsers that recognise the token, by their place in the order
Recognisers(token) == {i \in 1..Len(ParserOrder) : Recognises(ParserOrder[i], token)}

\* the first parser in the order that recognises the token
FirstRecogniser(token) == ParserOrder[First(Recognisers(token))]

\* the tokens of the flags, concatenated in order
RECURSIVE TokensOf(_)
TokensOf(flags) ==
    IF flags = << >> THEN << >>
    ELSE Head(flags).arguments \o TokensOf(Tail(flags))

\* C19: flag parsing consumes argv from argv[1] left to right, at each
\* position taking the first matching parser in the order KindOfOutput,
\* Preprocessor, DirectorySearch, Linker, Source, EverythingElse; for every
\* argv tail the parse accepts, the tokens of the produced flags,
\* concatenated in order, are the argv tail.
C19_ParserChainTotality ==
    (ChainActed /\ fret.state = "ok") =>
        /\ TokensOf(fret.flags) = Tail(fcall.arguments)
        /\ \A i \in 1..Len(fret.flags) :
               LET consumed == Len(TokensOf(SubSeq(fret.flags, 1, i - 1)))
                   input == SubSeq(fcall.arguments, consumed + 2, Len(fcall.arguments))
                   token == fret.flags[i].arguments[1]
               IN /\ Recognisers(token) # {}
                  /\ parser_parse(FirstRecogniser(token), input)
                         = ParseOk(fret.flags[i],
                                   SubSeq(input, Len(fret.flags[i].arguments) + 1,
                                          Len(input)))

\* an accepted command line with a flag that took an operand from a parser
\* that is not the first of the chain, followed by a source file
C19_Witness ==
    /\ ChainActed
    /\ fret.state = "ok"
    /\ fcall.arguments = <<"cc", "-I", "-o", "a.c">>
    /\ Len(fret.flags) = 2

\* the operands the flag needs: those of the first parser recognising it
OperandsOf(token) ==
    CHOOSE n \in 0..1 :
        parser_parse(FirstRecogniser(token), [i \in 1..(n + 1) |-> token]).state = "ok"

\* walking the tail flag by flag meets a flag with fewer tokens left than
\* the operands it needs
RECURSIVE Truncated(_)
Truncated(tail) ==
    IF tail = << >> THEN FALSE
    ELSE IF Recognisers(tail[1]) = {} THEN FALSE
    ELSE IF Len(tail) < 1 + OperandsOf(tail[1]) THEN TRUE
    ELSE Truncated(SubSeq(tail, OperandsOf(tail[1]) + 2, Len(tail)))

\* C20: when a flag that requires N separate operands is followed by fewer
\* than N remaining tokens (a trailing "-o", say), parsing returns an
\* error; it never produces a flag with fewer than 1+N tokens and never
\* reads past the end of argv.
C20_TruncatedOperandsIsError ==
    ParserActed =>
        /\ Truncated(Tail(fcall.arguments)) => fret.state = "err"
        /\ fret.state \in {"ok", "err"}
        /\ \A i \in 1..Len(fret.flags) :
               Len(fret.flags[i].arguments) >= 1 + OperandsOf(fret.flags[i].arguments[1])

\* the token is "-I" with a non-empty directory glued to it
GluedInclude(token) == IsPrefix("-I", token) /\ Len(token) > 2

\* C21: a single token "-I<dir>" (<dir> non-empty) is classified as one
\* flag of type DIRECTORY_SEARCH consuming exactly that token, and the two
\* tokens "-I" "<dir>" are classified as one DIRECTORY_SEARCH flag
\* consuming both.
C21_IncludeDirectory ==
    (ChainActed /\ fret.state = "ok") =>
        \A i \in 1..Len(fret.flags) :
            LET flag == fret.flags[i] IN
            /\ GluedInclude(flag.arguments[1]) =>
                   flag.type = "DIRECTORY_SEARCH" /\ Len(flag.arguments) = 1
            /\ flag.arguments[1] = "-I" =>
                   flag.type = "DIRECTORY_SEARCH" /\ Len(flag.arguments) = 2

\* the slots of the destination array the hook declared for the call
DeclaredSlots(c) ==
    IF c.impl = "el"
    THEN CommandBuilder_length(c.session, c.argv)
    ELSE ear_length_execution(c.argv) + ear_length_session(c.session) + 1

\* C27: for every session (verbose or not) and every argv, assemble writes
\* only into the first length() slots of the destination array, the final
\* NULL terminator included: no write beyond the array happens, and the
\* argv handed on with its terminator fits the declared slots.
C27_AssembleWithinLength ==
    (HookActed /\ fret.state # "hung") =>
        /\ fret.state # "fault"
        /\ fret.through # Nil =>
               Len(fret.through[1].argv) + 1 <= DeclaredSlots(fcall)

\* C28: the search-path loop terminates for every search-path string, the
\* empty string and strings with empty entries included: the lookup
\* returns a resolved path or a failure.
C28_SearchTerminates ==
    SearchCall =>
        /\ fret.state \in {"returned", "replaced", "fault"}
        /\ fret.resolved # Nil \/ fret.through = Nil

\* ---------------------------------------------------------------------
\* Compilation database: entries and their merge
\* ---------------------------------------------------------------------

\* the longest entry list explored
MaxEntries == 2

\* the pieces of a path between the directory separators
RECURSIVE path_names(_)
path_names(input) ==
    LET separators == {i \in 1..Len(input) : SubSeq(input, i, i) = DIR_SEPARATOR} IN
    IF separators = {} THEN <<input>>
    ELSE <<SubSeq(input, 1, First(separators) - 1)>>
             \o path_names(SubSeq(input, First(separators) + 1, Len(input)))

\* the elements std::filesystem::path iterates over: the root directory,
\* the file names (repeated separators count once) and an empty element
\* after a trailing separator
path_elements(input) ==
    LET names == SelectSeq(path_names(input), LAMBDA n : n # "") IN
    (IF IsPrefix(DIR_SEPARATOR, input) THEN <<DIR_SEPARATOR>> ELSE << >>)
    \o names
    \o (IF names # << >> /\ SubSeq(input, Len(input), Len(input)) = DIR_SEPARATOR
        THEN <<"">> ELSE << >>)

\* operator== of std::filesystem::path: the elements are the same
path_equal(lhs, rhs) == path_elements(lhs) = path_elements(rhs)

\* operator== of std::optional<fs::path>
optional_equal(lhs, rhs) ==
    IF lhs = Nil \/ rhs = Nil THEN lhs = rhs
    ELSE path_equal(lhs[1], rhs[1])

\* cs::output::Entry
Entry(file_, directory, output, arguments) ==
    [file |-> file_, directory |-> directory, output |-> output,
     arguments |-> arguments]

\* cs::output::operator==(const Entry&, const Entry&)
Entry_equal(lhs, rhs) ==
    /\ path_equal(lhs.file, rhs.file)
    /\ path_equal(lhs.directory, rhs.directory)
    /\ optional_equal(lhs.output, rhs.output)
    /\ lhs.arguments = rhs.arguments

\* std::find(result.begin(), result.end(), candidate) != result.end()
FindEntry(entries, candidate) ==
    \E i \in 1..Len(entries) : Entry_equal(entries[i], candidate)

\* the loop of cs::output::merge over the candidates of rhs
RECURSIVE MergeLoop(_, _)
MergeLoop(merged, rhs) ==
    IF rhs = << >> THEN merged
    ELSE MergeLoop(IF FindEntry(merged, Head(rhs)) THEN merged
                   ELSE Append(merged, Head(rhs)),
                   Tail(rhs))

\* cs::output::merge, appending every candidate
merge_AppendAll(lhs, rhs) == lhs \o rhs

\* cs::output::merge
merge(lhs, rhs) == MergeLoop(lhs, rhs)

\* the entries explored: one compilation, the same with its file spelled
\* with a doubled separator, and the same with another file, directory,
\* output and argument list
EntryValues ==
    { Entry("d/b.c", "/w", Nil, <<"cc", "-c", "d/b.c">>),
      Entry("d//b.c", "/w", Nil, <<"cc", "-c", "d/b.c">>),
      Entry("a.c", "/w", Nil, <<"cc", "-c", "d/b.c">>),
      Entry("d/b.c", "/v", Nil, <<"cc", "-c", "d/b.c">>),
      Entry("d/b.c", "/w", Ptr("b.o"), <<"cc", "-c", "d/b.c">>),
      Entry("d/b.c", "/w", Nil, <<"cc", "-c", "-g", "d/b.c">>) }

\* the entry lists explored
EntryLists == StringsUpTo(EntryValues, MaxEntries)

\* the calls of merge explored: the database read back and the new entries
MergeCalls == [fn : {"merge"}, lhs : EntryLists, rhs : EntryLists]

\* the entries of the run are about to be merged into the old database
InitMerge ==
    /\ ProcessInit
    /\ fcall \in MergeCalls
    /\ fret = NoRet

\* output::merge(old_entries, compilations)
Merge ==
    /\ fcall.fn = "merge"
    /\ fret = NoRet
    /\ fret' = [state |-> "merged", entries |-> merge(fcall.lhs, fcall.rhs)]
    /\ UNCHANGED <<fcall, processVars>>

\* the merged database is merged with the same new entries once more
MergeAgain ==
    /\ fcall.fn = "merge"
    /\ fret # NoRet
    /\ fret.state = "merged"
    /\ fret' = [state |-> "merged again", before |-> fret.entries,
                entries |-> merge(fret.entries, fcall.rhs)]
    /\ UNCHANGED <<fcall, processVars>>

NextMerge == Merge \/ MergeAgain

SpecMerge == InitMerge /\ [][NextMerge]_vars

\* entries are equal iff file, directory, output and arguments are equal
SameEntry(a, b) ==
    /\ path_elements(a.file) = path_elements(b.file)
    /\ path_elements(a.directory) = path_elements(b.directory)
    /\ (a.output = Nil) = (b.output = Nil)
    /\ a.output # Nil => path_elements(a.output[1]) = path_elements(b.output[1])
    /\ a.arguments = b.arguments

\* two entry lists are equal: the same length and equal entries in turn
SameEntries(as, bs) ==
    /\ Len(as) = Len(bs)
    /\ \A i \in 1..Len(as) : SameEntry(as[i], bs[i])

\* C25: merge is idempotent in its second argument: merge(A, A) == A and
\* merge(merge(A, B), B) == merge(A, B) for all entry lists A and B, where
\* entries are equal iff file, directory, output and arguments are equal.
C25_MergeIdempotent ==
    /\ (fcall.fn = "merge" /\ fret # NoRet /\ fret.state = "merged"
            /\ fcall.lhs = fcall.rhs)
           => SameEntries(fret.entries, fcall.lhs)
    /\ (fcall.fn = "merge" /\ fret # NoRet /\ fret.state = "merged again")
           => SameEntries(fret.entries, fret.before)

\* a database was merged with entries of which one is new and one is in
\* it under another spelling, and merged with them again
C25_Witness ==
    /\ fcall.fn = "merge"
    /\ fret # NoRet
    /\ fret.state = "merged again"
    /\ Len(fcall.lhs) = 1
    /\ Len(fcall.rhs) = 2
    /\ Len(fret.entries) = 2
    /\ fcall.rhs[1] # fcall.lhs[1]
    /\ SameEntry(fcall.rhs[1], fcall.lhs[1])

\* as is a sub-list of bs: its entries, in their order, are entries of bs
RECURSIVE SubList(_, _)
SubList(as, bs) ==
    IF as = << >> THEN TRUE
    ELSE IF bs = << >> THEN FALSE
    ELSE IF Head(as) = Head(bs) THEN SubList(Tail(as), Tail(bs))
    ELSE SubList(as, Tail(bs))

\* C26: the result of merging a previously written database with new
\* entries contains every entry of either input, keeps the old entries
\* first in their order followed by the new ones in their order, and
\* contains no two equal entries, whatever the two inputs contain.
C26_MergeIsOrderedUnion ==
    (fcall.fn = "merge" /\ fret # NoRet /\ fret.state = "merged") =>
        LET merged == fret.entries IN
        /\ \A i \in 1..Len(fcall.lhs) :
               \E j \in 1..Len(merged) : SameEntry(merged[j], fcall.lhs[i])
        /\ \A i \in 1..Len(fcall.rhs) :
               \E j \in 1..Len(merged) : SameEntry(merged[j], fcall.rhs[i])
        /\ Len(merged) >= Len(fcall.lhs)
        /\ SubSeq(merged, 1, Len(fcall.lhs)) = fcall.lhs
        /\ SubList(SubSeq(merged, Len(fcall.lhs) + 1, Len(merged)), fcall.rhs)
        /\ \A i, j \in 1..Len(merged) : i # j => ~SameEntry(merged[i], merged[j])

\* ---------------------------------------------------------------------
\* Recognising a compiler call: from the parsed flags to the entries
\* ---------------------------------------------------------------------

\* the longest argv tail of a compiler call explored
MaxArguments == 5

\* the flags of the given type
FlagsOfType(flags, type) == SelectSeq(flags, LAMBDA flag : flag.type = type)

\* gcc::runs_compilation_pass, every dependency generation flag counting
\* as no compilation
runs_compilation_pass_AnyMake(flags) ==
    /\ flags # << >>
    /\ FlagsOfType(flags, "KIND_OF_OUTPUT_INFO") = << >>
    /\ FlagsOfType(flags, "PREPROCESSOR_MAKE") = << >>

\* gcc::runs_compilation_pass
runs_compilation_pass(flags) ==
    IF flags = << >> THEN FALSE
    ELSE IF \E i \in 1..Len(flags) : flags[i].type = "KIND_OF_OUTPUT_INFO" THEN FALSE
    ELSE IF \E i \in 1..Len(flags) :
                /\ flags[i].type = "PREPROCESSOR_MAKE"
                /\ Head(flags[i].arguments) \in {"-M", "-MM"}
    THEN FALSE
    ELSE TRUE

\* gcc::source_file
source_file(flag) ==
    IF flag.type = "SOURCE" THEN Ptr(Head(flag.arguments)) ELSE Nil

\* gcc::source_files
RECURSIVE source_files(_)
source_files(flags) ==
    IF flags = << >> THEN << >>
    ELSE (IF source_file(Head(flags)) # Nil THEN <<source_file(Head(flags))[1]>> ELSE << >>)
             \o source_files(Tail(flags))

\* gcc::output_file
output_file(flag) ==
    IF flag.type = "KIND_OF_OUTPUT_OUTPUT"
    THEN Ptr(flag.arguments[Len(flag.arguments)])
    ELSE Nil

\* gcc::output_files
RECURSIVE output_files(_)
output_files(flags) ==
    IF flags = << >> THEN Nil
    ELSE IF output_file(Head(flags)) # Nil THEN output_file(Head(flags))
    ELSE output_files(Tail(flags))

\* the copy loop of gcc::filter_arguments
RECURSIVE FilterLoop(_, _)
FilterLoop(flags, source) ==
    IF flags = << >> THEN << >>
    ELSE LET flag == Head(flags)
             type_filter_out ==
                 flag.type \in {"LINKER", "PREPROCESSOR_MAKE", "DIRECTORY_SEARCH_LINKER"}
             candidate == source_file(flag)
             source_filter == candidate = Nil \/ path_equal(candidate[1], source)
         IN (IF ~type_filter_out /\ source_filter THEN flag.arguments ELSE << >>)
                \o FilterLoop(Tail(flags), source)

\* gcc::filter_arguments
filter_arguments(flags, source) ==
    LET no_linking == \E i \in 1..Len(flags) : flags[i].type = "KIND_OF_OUTPUT_NO_LINKING" IN
    (IF ~no_linking THEN <<"-c">> ELSE << >>) \o FilterLoop(flags, source)

Digits == {"0", "1", "2", "3", "4", "5", "6", "7", "8", "9"}

\* \d+(\.\d+){0,2}
IsVersion(text) ==
    \E dots \in SUBSET (1..Len(text)) :
        /\ Cardinality(dots) <= 2
        /\ \A i \in 1..Len(text) :
               IF i \in dots THEN SubSeq(text, i, i) = "."
               ELSE SubSeq(text, i, i) \in Digits
        /\ text # ""
        /\ \A i \in dots : i # 1 /\ i # Len(text) /\ (i + 1) \notin dots

\* ^([^-]*-)*(stem)(-?\d+(\.\d+){0,2})?$ for one of the stems
MatchesCompiler(name, stems) ==
    \E i \in 0..Len(name), stem \in stems :
        LET rest == SubSeq(name, i + 1, Len(name))
            version == SubSeq(rest, Len(stem) + 1, Len(rest))
        IN /\ i = 0 \/ SubSeq(name, i, i) = "-"
           /\ IsPrefix(stem, rest)
           /\ \/ version = ""
              \/ IsVersion(version)
              \/ IsPrefix("-", version) /\ IsVersion(SubSeq(version, 2, Len(version)))

\* gcc::match_executable_name
match_executable_name(program) ==
    LET names == path_names(program)
        basename == names[Len(names)]
    IN \/ basename \in {"cc", "c++", "cxx", "CC"}
       \/ MatchesCompiler(basename, {"mcc", "gcc"})
       \/ MatchesCompiler(basename, {"m++", "g++"})
       \/ MatchesCompiler(basename, {"fortran", "gfortran"})

\* fs::path::is_absolute
is_absolute(path) == IsPrefix(DIR_SEPARATOR, path)

\* entry.directory / path
path_append(directory, path) ==
    IF is_absolute(path) \/ directory = "" THEN path
    ELSE IF SubSeq(directory, Len(directory), Len(directory)) = DIR_SEPARATOR
    THEN directory \o path
    ELSE directory \o DIR_SEPARATOR \o path

\* cs::make_absolute
make_absolute(entry) ==
    LET transform(path) == IF is_absolute(path) THEN path
                           ELSE path_append(entry.directory, path)
    IN [entry EXCEPT !.file = transform(entry.file),
                     !.output = IF entry.output # Nil
                                THEN Ptr(transform(entry.output[1]))
                                ELSE Nil]

\* the compilers named in the configuration: GnuCompilerCollection::paths
CompilerPaths == {"/opt/wrapper"}

\* GnuCompilerCollection::recognize(const fs::path&)
recognize_program(program) ==
    (\E path \in CompilerPaths : path_equal(path, program))
        \/ match_executable_name(program)

\* GnuCompilerCollection::recognize(const report::Command&)
recognize(command, overrun) ==
    IF ~recognize_program(command.program)
    THEN [state |-> "err", flags |-> << >>, pass |-> FALSE, entries |-> << >>]
    ELSE LET parsed == gcc_parse(command, overrun)
             flags == parsed.flags
             output == output_files(flags)
             sources == source_files(flags)
         IN IF parsed.state # "ok"
            THEN [state |-> parsed.state, flags |-> << >>, pass |-> FALSE,
                  entries |-> << >>]
            ELSE IF ~runs_compilation_pass(flags)
            THEN [state |-> "ok", flags |-> flags, pass |-> FALSE, entries |-> << >>]
            ELSE [state |-> "ok", flags |-> flags, pass |-> TRUE,
                  entries |->
                      [i \in 1..Len(sources) |->
                          make_absolute(
                              Entry(sources[i], command.working_dir, output,
                                    <<command.program>>
                                        \o filter_arguments(flags, sources[i])))]]

\* the argv tails explored: every sequence of up to MaxArguments tokens
\* over one of three token families: output flags, sources among flags
\* that stay and flags that are dropped, and flags that decide whether
\* the call compiles
OutputTokens == {"-o", "x.o", "y.o", "a.c"}
SourceTokens == {"-c", "a.c", "d/b.c", "d//b.c", "-lm", "-La"}
PassTokens == {"-M", "-MD", "-MF", "--version", "a.c"}

ArgumentTails ==
    StringsUpTo(OutputTokens, MaxArguments)
        \cup StringsUpTo(SourceTokens, MaxArguments)
        \cup StringsUpTo(PassTokens, MaxArguments)

\* the commands explored: compiler calls by name and by configuration, and
\* a call of another program
RecognizeCalls ==
    [fn : {"recognize"}, program : {"/usr/bin/cc"},
     arguments : {<<"cc">> \o tail : tail \in ArgumentTails},
     working_dir : {"/w"},
     environment : {[k \in IncludeKeys |-> Nil],
                    [k \in IncludeKeys |-> IF k = "CPATH" THEN Ptr(":a") ELSE Nil]}]
    \cup [fn : {"recognize"}, program : {"/opt/wrapper", "/usr/bin/arm-gcc-9.3", "/bin/ls"},
          arguments : {<<"tool", "-c", "a.c">>},
          working_dir : {"/w"},
          environment : {[k \in IncludeKeys |-> Nil]}]

\* the semantic analysis is about to look at a command of the report
InitRecognize ==
    /\ ProcessInit
    /\ fcall \in RecognizeCalls
    /\ fret = NoRet

\* GnuCompilerCollection::recognize
Recognize(overrun) ==
    /\ fcall.fn = "recognize"
    /\ fret = NoRet
    /\ fret' = recognize(fcall, overrun)
    /\ UNCHANGED <<fcall, processVars>>

NextRecognize == \E overrun \in IteratorOverruns : Recognize(overrun)

SpecRecognize == InitRecognize /\ [][NextRecognize]_vars

\* the recogniser took the command for a compiler call and parsed it
Recognized == fcall.fn = "recognize" /\ fret # NoRet /\ fret.state = "ok"

\* C22: runs_compilation_pass(flags) is true iff flags is non-empty,
\* contains no flag of type KIND_OF_OUTPUT_INFO, and contains no
\* PREPROCESSOR_MAKE flag whose first token is exactly "-M" or "-MM"; when
\* it is false the recogniser returns zero entries.
C22_RunsCompilationPass ==
    Recognized =>
        /\ fret.pass <=>
               /\ Len(fret.flags) > 0
               /\ \A i \in 1..Len(fret.flags) :
                      /\ fret.flags[i].type # "KIND_OF_OUTPUT_INFO"
                      /\ ~(/\ fret.flags[i].type = "PREPROCESSOR_MAKE"
                           /\ fret.flags[i].arguments[1] \in {"-M", "-MM"})
        /\ ~fret.pass => fret.entries = << >>

\* a call with -MD and -MF and a source file counts as a compilation and
\* gives an entry
C22_Witness ==
    /\ Recognized
    /\ fcall.arguments = <<"cc", "-MD", "-MF", "a.c", "a.c">>
    /\ fret.pass
    /\ Len(fret.entries) = 1

\* the positions of the SOURCE flags
SourceFlags(flags) == {i \in 1..Len(flags) : flags[i].type = "SOURCE"}

\* the n-th smallest of a set of positions
RECURSIVE Nth(_, _)
Nth(indices, n) ==
    IF n = 1 THEN First(indices) ELSE Nth(indices \ {First(indices)}, n - 1)

\* the tokens of the flags that stay in the entry of the source at
\* position kept: all but the dropped types and the other sources
RECURSIVE StayingTokens(_, _, _)
StayingTokens(flags, i, kept) ==
    IF i > Len(flags) THEN << >>
    ELSE (IF \/ flags[i].type \in {"LINKER", "PREPROCESSOR_MAKE", "DIRECTORY_SEARCH_LINKER"}
             \/ flags[i].type = "SOURCE" /\ i # kept
          THEN << >> ELSE flags[i].arguments)
             \o StayingTokens(flags, i + 1, kept)

\* C23: for a recognised compilation with N distinct SOURCE tokens the
\* recogniser emits exactly N entries, one per source in argv order; each
\* entry's arguments start with the program, then "-c" iff no
\* KIND_OF_OUTPUT_NO_LINKING flag was parsed, then the tokens of all flags
\* in original order except flags of type LINKER, PREPROCESSOR_MAKE and
\* DIRECTORY_SEARCH_LINKER and except the other N-1 sources.
C23_OneEntryPerSource ==
    LET flags == fret.flags
        sources == SourceFlags(flags)
    IN (/\ Recognized
        /\ fret.pass
        /\ \A i, j \in sources : i # j => flags[i].arguments # flags[j].arguments) =>
           /\ Len(fret.entries) = Cardinality(sources)
           /\ \A n \in 1..Len(fret.entries) :
                  LET at == Nth(sources, n) IN
                  /\ path_equal(fret.entries[n].file,
                                path_append(fcall.working_dir, flags[at].arguments[1]))
                  /\ fret.entries[n].arguments =
                         <<fcall.program>>
                             \o (IF \A i \in 1..Len(flags) :
                                        flags[i].type # "KIND_OF_OUTPUT_NO_LINKING"
                                 THEN <<"-c">> ELSE << >>)
                             \o StayingTokens(flags, 1, at)

\* C24: the output of every entry produced for an invocation is the
\* operand of the last flag of type KIND_OF_OUTPUT_OUTPUT ("-o") in argv,
\* made absolute, or absent when there is no such flag; with two "-o"
\* flags the later one determines the output.
C24_LastOutputWins ==
    Recognized =>
        LET outputs == {i \in 1..Len(fret.flags) :
                            fret.flags[i].type = "KIND_OF_OUTPUT_OUTPUT"}
            last == CHOOSE i \in outputs : \A j \in outputs : j <= i
        IN \A n \in 1..Len(fret.entries) :
               IF outputs = {} THEN fret.entries[n].output = Nil
               ELSE /\ fret.entries[n].output # Nil
                    /\ path_equal(fret.entries[n].output[1],
                                  path_append(fcall.working_dir,
                                              fret.flags[last].arguments[2]))

\* ---------------------------------------------------------------------
\* The recorded child of the collector and the events of a supervisor
\* ---------------------------------------------------------------------

\* the top-level child exists as a process: spawned and not yet waited for
ChildExists == ChildState \in {"running", "zombie"}

\* C29: every forwardable signal that reaches the collector after the
\* top-level child has been spawned and before it has been reaped is
\* delivered to that child, and no signal is ever sent to a child after
\* its wait has returned: the recorded child is set for exactly the
\* interval in which the child process exists.
C29_ChildRecordedWhileItExists ==
    /\ [](\A i \in 1..Len(sent) : sent[i].state # "reaped")
    /\ [](CHILD_PROCESS # 0 <=> ChildExists)
    /\ [][(nSignals' = nSignals + 1 /\ lastSig' \in Handled /\ ChildExists) =>
             sent' = Append(sent, [signum |-> lastSig', to |-> TopLevel,
                                   state |-> ChildState])]_vars

\* the supervisor's wait for its target returned and it made up its report
Reporting(s) ==
    Len(events[s]) > 0 /\ has_stopped(events[s][Len(events[s])])

\* C30: whenever a supervisor has spawned its target and the wait for it
\* returned, the event list it reports to the collector consists of
\* exactly one 'started' event followed by exactly one 'stopped' event, so
\* the collector's builder always yields an execution for it; this holds
\* also when querying the working directory fails.
C30_StartedThenStopped ==
    \A s \in Sups :
        Reporting(s) =>
            /\ Len(events[s]) = 2
            /\ has_started(events[s][1])
            /\ has_stopped(events[s][2])
            /\ AddAll(NoExecution, events[s]) # NoExecution

====
